---- MODULE Spec2Model ----
(***************************************************************************)
(* Replication planner and step engine of zrepl                            *)
(* (internal/replication/logic): per-filesystem planning                   *)
(* (Filesystem.doPlanning, tryAutoresolveConflict) and the execution of    *)
(* one Step (Step.doReplication, Step.sendRecv).                           *)
(***************************************************************************)
EXTENDS Integers, Sequences, FiniteSets, TLC

(***************************************************************************)
(* Bounds of the model.                                                    *)
(***************************************************************************)
\* GUIDs of the sender's versions are 1..MaxGuid
MaxGuid == 3
\* the sender lists at most MaxVers versions
MaxVers == 3
\* the receiver lists at most MaxRecv versions when it has no resume token
MaxRecv == 2
\* the receiver lists at most MaxRecvResume versions next to a resume token
MaxRecvResume == 1
\* the send stream of a step carries at most MaxBytes bytes
MaxBytes == 1
\* the reporter watches plans of at most MaxReported steps
MaxReported == 2
\* an endpoint lists at most MaxFS filesystems
MaxFS == 2
\* the versions of the Steps that TargetEquals compares have GUIDs
\* 1..MaxTargetGuid
MaxTargetGuid == 2
\* ZFSDestroyFilesystemVersions gets at most MaxReqs requests
MaxReqs == 3
\* the snapshot plan has the filesystems 1..MaxSnapFS or some of them
MaxSnapFS == 3

VARIABLES
    senderFS,     \* Filesystem.senderFS: [IsPlaceholder]
    receiverFS,   \* Filesystem.receiverFS: [present, IsPlaceholder, ResumeToken]
    sfsvs,        \* the versions the sender's ListFilesystemVersions returns
    rfsvs,        \* the versions the receiver's ListFilesystemVersions returns
    policy,       \* PlannerPolicy.ConflictResolution.InitialReplication
    oneStep,      \* the oneStep argument of Filesystem.PlanFS
    faults,       \* which endpoint calls may fail: [slist, rlist, dry, step],
                  \* and whether the receiver's list fails first: rfirst
    pc,           \* position of the task that plans and replicates the filesystem
    plan,         \* what Filesystem.doPlanning returned
    stepIdx,      \* index in plan.steps of the Step being executed
    cur,          \* locals of the running Step.doReplication / sendRecv
    trace,        \* the endpoint calls and returns of the attempt, in order
    promBytesReplicated, \* Filesystem.promBytesReplicated
    prevPlan,     \* what doPlanning returned in the attempt before this one
    byteCounters, \* Count() of Step.byteCounter of the steps whose sendRecv
                  \* returned with it installed; cur.count for the running one
    reported,     \* per step of the plan, what Step.ReportInfo returned last
    endpoints,    \* what the two endpoints answer to the Planner's calls
    planner,      \* the running Planner.Plan or Planner.WaitForConnectivity
    args,         \* the arguments of a function that is applied on its own
    result        \* what that function returned and did

vars == <<senderFS, receiverFS, sfsvs, rfsvs, policy, oneStep, faults, pc,
          plan, stepIdx, cur, trace, promBytesReplicated, prevPlan,
          byteCounters, reported, endpoints, planner, args, result>>

\* the state of the planning and replication of one filesystem
fsVars == <<senderFS, receiverFS, sfsvs, rfsvs, policy, oneStep, faults, pc,
            plan, stepIdx, cur, trace, promBytesReplicated, prevPlan,
            byteCounters, reported>>

\* before a function is applied on its own
NoArgs == [op |-> "none"]

NoResult == [op |-> "none"]

(***************************************************************************)
(* pdu.FilesystemVersion                                                   *)
(***************************************************************************)
\* a nil *pdu.FilesystemVersion; GetGuid() of it is 0
NilVersion == [Type |-> "nil", Guid |-> 0, CreateTXG |-> 0]

Version(type, guid, txg) == [Type |-> type, Guid |-> guid, CreateTXG |-> txg]

Snapshot == "snapshot"
Bookmark == "bookmark"

Guids(l) == {l[i].Guid : i \in 1..Len(l)}

\* the less function of SortVersionListByCreateTXGThenBookmarkLTSnapshot
Lesser(a, b) ==
    \/ a.CreateTXG < b.CreateTXG
    \/ /\ a.CreateTXG = b.CreateTXG
       /\ a.Type = Bookmark
       /\ b.Type = Snapshot

SortVersionListByCreateTXGThenBookmarkLTSnapshot(l) == SortSeq(l, Lesser)

(***************************************************************************)
(* zfs.ParseResumeToken.  A raw token is the empty string <<>>, an         *)
(* undecodable string <<-1>>, or <<fromguid, toguid>> where 0 stands for   *)
(* a field the token does not carry.                                       *)
(***************************************************************************)
NoToken == <<>>
GarbageToken == <<-1>>

ParseResumeToken(raw) ==
    IF Len(raw) # 2
    THEN [err |-> TRUE, HasFromGUID |-> FALSE, FromGUID |-> 0,
          HasToGUID |-> FALSE, ToGUID |-> 0]
    ELSE [err |-> FALSE, HasFromGUID |-> raw[1] # 0, FromGUID |-> raw[1],
          HasToGUID |-> raw[2] # 0, ToGUID |-> raw[2]]

(***************************************************************************)
(* diff.IncrementalPath and its conflicts                                  *)
(***************************************************************************)
NoConflict == [kind |-> "none", SortedSenderVersions |-> <<>>,
               SortedReceiverVersions |-> <<>>]

Conflict(kind, sender, receiver) ==
    [kind |-> kind, SortedSenderVersions |-> sender,
     SortedReceiverVersions |-> receiver]

\* index of the receiver's most recent version whose GUID the sender has, or 0
MrcaR(receiver, sender) ==
    LET common == {r \in 1..Len(receiver) : receiver[r].Guid \in Guids(sender)}
    IN  IF common = {} THEN 0
        ELSE CHOOSE r \in common : \A q \in common : q <= r

\* index of the sender's last version with the GUID of receiver[r]
MrcaS(receiver, sender, r) ==
    LET same == {s \in 1..Len(sender) : sender[s].Guid = receiver[r].Guid}
    IN  CHOOSE s \in same : \A q \in same : q <= s

RECURSIVE IncPathFrom(_, _, _)
IncPathFrom(sender, i, acc) ==
    IF i > Len(sender) THEN acc
    ELSE IncPathFrom(sender, i + 1,
            IF /\ sender[i].Type = Snapshot
               /\ acc[Len(acc)].Guid # sender[i].Guid
            THEN Append(acc, sender[i])
            ELSE acc)

\* IncrementalPath whose path starts at the sender's oldest version
IncrementalPath_FromOldest(receiverIn, senderIn) ==
    LET receiver == SortVersionListByCreateTXGThenBookmarkLTSnapshot(receiverIn)
        sender == SortVersionListByCreateTXGThenBookmarkLTSnapshot(senderIn)
        r == MrcaR(receiver, sender)
    IN  IF Len(sender) > 0 /\ sender[Len(sender)].Guid \in Guids(receiver)
        THEN [path |-> <<>>,
              conflict |-> Conflict("MostRecentAlreadyPresent", sender, receiver)]
        ELSE IF r = 0
        THEN [path |-> <<>>,
              conflict |-> Conflict("NoCommonAncestor", sender, receiver)]
        ELSE IF r # Len(receiver)
        THEN [path |-> <<>>,
              conflict |-> Conflict("Diverged", sender, receiver)]
        ELSE LET s == MrcaS(receiver, sender, r)
                 incPath == IncPathFrom(sender, 2, <<sender[1]>>)
             IN  [path |-> IF Len(incPath) = 1 THEN <<>> ELSE incPath,
                  conflict |-> NoConflict]

IncrementalPath(receiverIn, senderIn) ==
    LET receiver == SortVersionListByCreateTXGThenBookmarkLTSnapshot(receiverIn)
        sender == SortVersionListByCreateTXGThenBookmarkLTSnapshot(senderIn)
        r == MrcaR(receiver, sender)
    IN  IF Len(sender) > 0 /\ sender[Len(sender)].Guid \in Guids(receiver)
        THEN [path |-> <<>>,
              conflict |-> Conflict("MostRecentAlreadyPresent", sender, receiver)]
        ELSE IF r = 0
        THEN [path |-> <<>>,
              conflict |-> Conflict("NoCommonAncestor", sender, receiver)]
        ELSE IF r # Len(receiver)
        THEN [path |-> <<>>,
              conflict |-> Conflict("Diverged", sender, receiver)]
        ELSE LET s == MrcaS(receiver, sender, r)
                 incPath == IncPathFrom(sender, s + 1, <<sender[s]>>)
             IN  [path |-> IF Len(incPath) = 1 THEN <<>> ELSE incPath,
                  conflict |-> NoConflict]

(***************************************************************************)
(* tryAutoresolveConflict                                                  *)
(***************************************************************************)
InitialReplicationAutoResolutionMostRecent == "most_recent"
InitialReplicationAutoResolutionAll == "all"
InitialReplicationAutoResolutionFail == "fail"

Policies == {InitialReplicationAutoResolutionMostRecent,
             InitialReplicationAutoResolutionAll,
             InitialReplicationAutoResolutionFail}

NoErr == "nil"

RECURSIVE MostRecentSnap(_, _)
MostRecentSnap(l, n) ==
    IF n < 1 THEN NilVersion
    ELSE IF l[n].Type = Snapshot THEN l[n]
    ELSE MostRecentSnap(l, n - 1)

IsSnapshot(v) == v.Type = Snapshot

\* tryAutoresolveConflict returns the path, the reason as its message (the
\* classification, when the reason is a conflict) and the conflict that the
\* reason is, NoConflict when the reason is nil or a new error.
\* tryAutoresolveConflict that does not take the conflict "most recent
\* snapshot already present" for a no-op and returns it
tryAutoresolveConflict_ReturnsAlreadyPresent(conflict, initialReplication) ==
    IF /\ conflict.kind = "NoCommonAncestor"
       /\ Len(conflict.SortedReceiverVersions) = 0
    THEN IF Len(conflict.SortedSenderVersions) = 0
         THEN [path |-> <<>>, err |-> "no snapshots available on sender side",
               conflict |-> NoConflict]
         ELSE CASE initialReplication = InitialReplicationAutoResolutionMostRecent ->
                    [path |-> <<NilVersion,
                                MostRecentSnap(conflict.SortedSenderVersions,
                                    Len(conflict.SortedSenderVersions))>>,
                     err |-> NoErr, conflict |-> NoConflict]
                [] initialReplication = InitialReplicationAutoResolutionAll ->
                    [path |-> <<NilVersion>> \o
                        SelectSeq(conflict.SortedSenderVersions, IsSnapshot),
                     err |-> NoErr, conflict |-> NoConflict]
                [] initialReplication = InitialReplicationAutoResolutionFail ->
                    [path |-> <<>>,
                     err |-> "automatic conflict resolution for initial replication is disabled in config",
                     conflict |-> NoConflict]
    ELSE [path |-> <<>>, err |-> conflict.kind, conflict |-> conflict]

\* tryAutoresolveConflict whose policy "all" keeps the bookmarks in the path
tryAutoresolveConflict_AllKeepsBookmarks(conflict, initialReplication) ==
    IF conflict.kind = "MostRecentAlreadyPresent"
    THEN [path |-> <<>>, err |-> NoErr, conflict |-> NoConflict]
    ELSE IF /\ conflict.kind = "NoCommonAncestor"
            /\ Len(conflict.SortedReceiverVersions) = 0
    THEN IF Len(conflict.SortedSenderVersions) = 0
         THEN [path |-> <<>>, err |-> "no snapshots available on sender side",
               conflict |-> NoConflict]
         ELSE CASE initialReplication = InitialReplicationAutoResolutionMostRecent ->
                    [path |-> <<NilVersion,
                                MostRecentSnap(conflict.SortedSenderVersions,
                                    Len(conflict.SortedSenderVersions))>>,
                     err |-> NoErr, conflict |-> NoConflict]
                [] initialReplication = InitialReplicationAutoResolutionAll ->
                    [path |-> <<NilVersion>> \o conflict.SortedSenderVersions,
                     err |-> NoErr, conflict |-> NoConflict]
                [] initialReplication = InitialReplicationAutoResolutionFail ->
                    [path |-> <<>>,
                     err |-> "automatic conflict resolution for initial replication is disabled in config",
                     conflict |-> NoConflict]
    ELSE [path |-> <<>>, err |-> conflict.kind, conflict |-> conflict]

\* tryAutoresolveConflict whose policy "fail" returns the conflict it got
tryAutoresolveConflict_FailPropagates(conflict, initialReplication) ==
    IF conflict.kind = "MostRecentAlreadyPresent"
    THEN [path |-> <<>>, err |-> NoErr, conflict |-> NoConflict]
    ELSE IF /\ conflict.kind = "NoCommonAncestor"
            /\ Len(conflict.SortedReceiverVersions) = 0
    THEN IF Len(conflict.SortedSenderVersions) = 0
         THEN [path |-> <<>>, err |-> "no snapshots available on sender side",
               conflict |-> NoConflict]
         ELSE CASE initialReplication = InitialReplicationAutoResolutionMostRecent ->
                    [path |-> <<NilVersion,
                                MostRecentSnap(conflict.SortedSenderVersions,
                                    Len(conflict.SortedSenderVersions))>>,
                     err |-> NoErr, conflict |-> NoConflict]
                [] initialReplication = InitialReplicationAutoResolutionAll ->
                    [path |-> <<NilVersion>> \o
                        SelectSeq(conflict.SortedSenderVersions, IsSnapshot),
                     err |-> NoErr, conflict |-> NoConflict]
                [] initialReplication = InitialReplicationAutoResolutionFail ->
                    [path |-> <<>>, err |-> conflict.kind,
                     conflict |-> conflict]
    ELSE [path |-> <<>>, err |-> conflict.kind, conflict |-> conflict]

\* tryAutoresolveConflict that resolves "no common ancestor" whatever the
\* receiver holds, and "diverged" the same way
tryAutoresolveConflict_IgnoresReceiver(conflict, initialReplication) ==
    IF conflict.kind = "MostRecentAlreadyPresent"
    THEN [path |-> <<>>, err |-> NoErr, conflict |-> NoConflict]
    ELSE IF conflict.kind \in {"NoCommonAncestor", "Diverged"}
    THEN IF Len(conflict.SortedSenderVersions) = 0
         THEN [path |-> <<>>, err |-> "no snapshots available on sender side",
               conflict |-> NoConflict]
         ELSE CASE initialReplication = InitialReplicationAutoResolutionMostRecent ->
                    [path |-> <<NilVersion,
                                MostRecentSnap(conflict.SortedSenderVersions,
                                    Len(conflict.SortedSenderVersions))>>,
                     err |-> NoErr, conflict |-> NoConflict]
                [] initialReplication = InitialReplicationAutoResolutionAll ->
                    [path |-> <<NilVersion>> \o
                        SelectSeq(conflict.SortedSenderVersions, IsSnapshot),
                     err |-> NoErr, conflict |-> NoConflict]
                [] initialReplication = InitialReplicationAutoResolutionFail ->
                    [path |-> <<>>,
                     err |-> "automatic conflict resolution for initial replication is disabled in config",
                     conflict |-> NoConflict]
    ELSE [path |-> <<>>, err |-> conflict.kind, conflict |-> conflict]

\* tryAutoresolveConflict that answers "most recent snapshot already
\* present" with a full send of the most recent snapshot
tryAutoresolveConflict_ResendsAlreadyPresent(conflict, initialReplication) ==
    IF conflict.kind = "MostRecentAlreadyPresent"
    THEN [path |-> <<NilVersion,
                      MostRecentSnap(conflict.SortedSenderVersions,
                          Len(conflict.SortedSenderVersions))>>,
          err |-> NoErr, conflict |-> NoConflict]
    ELSE IF /\ conflict.kind = "NoCommonAncestor"
            /\ Len(conflict.SortedReceiverVersions) = 0
    THEN IF Len(conflict.SortedSenderVersions) = 0
         THEN [path |-> <<>>, err |-> "no snapshots available on sender side",
               conflict |-> NoConflict]
         ELSE CASE initialReplication = InitialReplicationAutoResolutionMostRecent ->
                    [path |-> <<NilVersion,
                                MostRecentSnap(conflict.SortedSenderVersions,
                                    Len(conflict.SortedSenderVersions))>>,
                     err |-> NoErr, conflict |-> NoConflict]
                [] initialReplication = InitialReplicationAutoResolutionAll ->
                    [path |-> <<NilVersion>> \o
                        SelectSeq(conflict.SortedSenderVersions, IsSnapshot),
                     err |-> NoErr, conflict |-> NoConflict]
                [] initialReplication = InitialReplicationAutoResolutionFail ->
                    [path |-> <<>>,
                     err |-> "automatic conflict resolution for initial replication is disabled in config",
                     conflict |-> NoConflict]
    ELSE [path |-> <<>>, err |-> conflict.kind, conflict |-> conflict]

tryAutoresolveConflict(conflict, initialReplication) ==
    IF conflict.kind = "MostRecentAlreadyPresent"
    THEN [path |-> <<>>, err |-> NoErr, conflict |-> NoConflict]
    ELSE IF /\ conflict.kind = "NoCommonAncestor"
            /\ Len(conflict.SortedReceiverVersions) = 0
    THEN IF Len(conflict.SortedSenderVersions) = 0
         THEN [path |-> <<>>, err |-> "no snapshots available on sender side",
               conflict |-> NoConflict]
         ELSE CASE initialReplication = InitialReplicationAutoResolutionMostRecent ->
                    [path |-> <<NilVersion,
                                MostRecentSnap(conflict.SortedSenderVersions,
                                    Len(conflict.SortedSenderVersions))>>,
                     err |-> NoErr, conflict |-> NoConflict]
                [] initialReplication = InitialReplicationAutoResolutionAll ->
                    [path |-> <<NilVersion>> \o
                        SelectSeq(conflict.SortedSenderVersions, IsSnapshot),
                     err |-> NoErr, conflict |-> NoConflict]
                [] initialReplication = InitialReplicationAutoResolutionFail ->
                    [path |-> <<>>,
                     err |-> "automatic conflict resolution for initial replication is disabled in config",
                     conflict |-> NoConflict]
    ELSE [path |-> <<>>, err |-> conflict.kind, conflict |-> conflict]

(***************************************************************************)
(* Step and Filesystem.doPlanning                                          *)
(***************************************************************************)
Step(from, to, resumeToken) ==
    [from |-> from, to |-> to, resumeToken |-> resumeToken, expectedSize |-> 0]

\* needReceiverVersions that is true for every receiver
needReceiverVersions_Always(rFS) == TRUE

\* Filesystem.needReceiverVersions
needReceiverVersions(rFS) == rFS.present /\ ~rFS.IsPlaceholder

\* the error of Filesystem.listBothVersions, NoErr for none: the error of the
\* call that failed first, as g.Wait returns it
listBothVersionsError(rFS, f) ==
    LET senderErr == IF f.slist THEN "sender: list versions failed" ELSE NoErr
        receiverErr == IF f.rlist /\ needReceiverVersions(rFS)
                       THEN "receiver: list versions failed" ELSE NoErr
    IN  IF senderErr # NoErr /\ receiverErr # NoErr
        THEN IF f.rfirst THEN receiverErr ELSE senderErr
        ELSE IF senderErr # NoErr THEN senderErr
        ELSE receiverErr

\* the size the sender's SendDry reports for one item
DrySize(sr) == 1 + sr.To.CreateTXG

\* Step.buildSendRequest
buildSendRequest(s) ==
    [Filesystem |-> "fs", From |-> s.from, To |-> s.to,
     ResumeToken |-> s.resumeToken, ReplicationConfig |-> "replication_config"]

\* updateSizeEstimates that sets the sizes although the dry run failed
updateSizeEstimates_SizesDespiteError(steps, dryFails) ==
    [steps |-> [i \in 1..Len(steps) |->
                  [steps[i] EXCEPT
                      !.expectedSize = DrySize(buildSendRequest(steps[i]))]],
     err |-> IF dryFails THEN "dry run send request failed" ELSE NoErr]

\* Filesystem.updateSizeEstimates: the steps after the call and its error
updateSizeEstimates(steps, dryFails) ==
    IF dryFails
    THEN [steps |-> steps, err |-> "dry run send request failed"]
    ELSE [steps |-> [i \in 1..Len(steps) |->
                        [steps[i] EXCEPT
                            !.expectedSize = DrySize(buildSendRequest(steps[i]))]],
          err |-> NoErr]

\* FindFromIdx without the comparison of the GUID with the token's fromguid
RECURSIVE FindFromIdx_NoGuidCheck(_, _, _, _)
FindFromIdx_NoGuidCheck(l, tok, idx, found) ==
    IF idx > Len(l) THEN found
    ELSE FindFromIdx_NoGuidCheck(l, tok, idx + 1,
            IF tok.HasFromGUID
            THEN IF found # 0 /\ l[found].Type = Snapshot THEN found ELSE idx
            ELSE found)

\* FindFromIdx that keeps the first version with the token's fromguid
RECURSIVE FindFromIdx_FirstMatch(_, _, _, _)
FindFromIdx_FirstMatch(l, tok, idx, found) ==
    IF idx > Len(l) THEN found
    ELSE FindFromIdx_FirstMatch(l, tok, idx + 1,
            IF tok.HasFromGUID /\ l[idx].Guid = tok.FromGUID
            THEN IF found # 0 THEN found ELSE idx
            ELSE found)

\* the loop of the resume branch that looks for fromVersion: its index, 0 for nil
RECURSIVE FindFromIdx(_, _, _, _)
FindFromIdx(l, tok, idx, found) ==
    IF idx > Len(l) THEN found
    ELSE FindFromIdx(l, tok, idx + 1,
            IF tok.HasFromGUID /\ l[idx].Guid = tok.FromGUID
            THEN IF found # 0 /\ l[found].Type = Snapshot THEN found ELSE idx
            ELSE found)

\* FindToIdx that takes the last snapshot for a token without toguid
RECURSIVE FindToIdx_WithoutToGuidTakesSnapshot(_, _, _, _)
FindToIdx_WithoutToGuidTakesSnapshot(l, tok, idx, found) ==
    IF idx > Len(l) THEN found
    ELSE FindToIdx_WithoutToGuidTakesSnapshot(l, tok, idx + 1,
            IF /\ tok.HasToGUID => l[idx].Guid = tok.ToGUID
               /\ l[idx].Type = Snapshot
            THEN idx
            ELSE found)

\* FindToIdx that takes a bookmark as toVersion
RECURSIVE FindToIdx_AcceptsBookmark(_, _, _, _)
FindToIdx_AcceptsBookmark(l, tok, idx, found) ==
    IF idx > Len(l) THEN found
    ELSE FindToIdx_AcceptsBookmark(l, tok, idx + 1,
            IF /\ tok.HasToGUID
               /\ l[idx].Guid = tok.ToGUID
            THEN idx
            ELSE found)

\* the loop of the resume branch that looks for toVersion: its index, 0 for nil
RECURSIVE FindToIdx(_, _, _, _)
FindToIdx(l, tok, idx, found) ==
    IF idx > Len(l) THEN found
    ELSE FindToIdx(l, tok, idx + 1,
            IF /\ tok.HasToGUID
               /\ l[idx].Guid = tok.ToGUID
               /\ l[idx].Type = Snapshot
            THEN idx
            ELSE found)

\* the steps between consecutive entries of remainingSFSVs
RECURSIVE TailSteps(_, _)
TailSteps(remaining, i) ==
    IF i > Len(remaining) - 1 THEN <<>>
    ELSE <<Step(remaining[i], remaining[i + 1], NoToken)>>
            \o TailSteps(remaining, i + 1)

\* ResumeSteps that keeps the bookmarks after the resume point
ResumeSteps_KeepBookmarks(sfsvsIn, tok, resumeTokenRaw, one) ==
    LET sorted == SortVersionListByCreateTXGThenBookmarkLTSnapshot(sfsvsIn)
        fromIdx == FindFromIdx(sorted, tok, 1, 0)
        toVersionIdx == FindToIdx(sorted, tok, 1, 0)
    IN  IF toVersionIdx = 0
        THEN [steps |-> <<>>, err |-> "resume token toguid not found on sender"]
        ELSE IF fromIdx = toVersionIdx
        THEN [steps |-> <<>>,
              err |-> "resume token fromguid and toguid match same version"]
        ELSE LET fromVersion == IF fromIdx = 0 THEN NilVersion ELSE sorted[fromIdx]
                 resumeStep == Step(fromVersion, sorted[toVersionIdx],
                                    resumeTokenRaw)
                 remainingSFSVs == SubSeq(sorted, toVersionIdx, Len(sorted))
             IN  IF one /\ Len(remainingSFSVs) > 1
                 THEN [steps |-> <<resumeStep,
                                   Step(remainingSFSVs[1],
                                        remainingSFSVs[Len(remainingSFSVs)],
                                        NoToken)>>,
                       err |-> NoErr]
                 ELSE [steps |-> <<resumeStep>> \o TailSteps(remainingSFSVs, 1),
                       err |-> NoErr]

\* ResumeSteps that collapses the resume step together with the tail
ResumeSteps_CollapseResume(sfsvsIn, tok, resumeTokenRaw, one) ==
    LET sorted == SortVersionListByCreateTXGThenBookmarkLTSnapshot(sfsvsIn)
        fromIdx == FindFromIdx(sorted, tok, 1, 0)
        toVersionIdx == FindToIdx(sorted, tok, 1, 0)
    IN  IF toVersionIdx = 0
        THEN [steps |-> <<>>, err |-> "resume token toguid not found on sender"]
        ELSE IF fromIdx = toVersionIdx
        THEN [steps |-> <<>>,
              err |-> "resume token fromguid and toguid match same version"]
        ELSE LET fromVersion == IF fromIdx = 0 THEN NilVersion ELSE sorted[fromIdx]
                 resumeStep == Step(fromVersion, sorted[toVersionIdx],
                                    resumeTokenRaw)
                 remainingSFSVs ==
                    SelectSeq(SubSeq(sorted, toVersionIdx, Len(sorted)),
                              IsSnapshot)
             IN  IF one /\ Len(remainingSFSVs) > 1
                 THEN [steps |-> <<Step(fromVersion,
                                        remainingSFSVs[Len(remainingSFSVs)],
                                        resumeTokenRaw)>>,
                       err |-> NoErr]
                 ELSE [steps |-> <<resumeStep>> \o TailSteps(remainingSFSVs, 1),
                       err |-> NoErr]

\* ResumeSteps without the check that fromVersion and toVersion differ
ResumeSteps_AllowsSameVersion(sfsvsIn, tok, resumeTokenRaw, one) ==
    LET sorted == SortVersionListByCreateTXGThenBookmarkLTSnapshot(sfsvsIn)
        fromIdx == FindFromIdx(sorted, tok, 1, 0)
        toVersionIdx == FindToIdx(sorted, tok, 1, 0)
    IN  IF toVersionIdx = 0
        THEN [steps |-> <<>>, err |-> "resume token toguid not found on sender"]
        ELSE LET fromVersion == IF fromIdx = 0 THEN NilVersion ELSE sorted[fromIdx]
                 resumeStep == Step(fromVersion, sorted[toVersionIdx],
                                    resumeTokenRaw)
                 remainingSFSVs ==
                    SelectSeq(SubSeq(sorted, toVersionIdx, Len(sorted)),
                              IsSnapshot)
             IN  IF one /\ Len(remainingSFSVs) > 1
                 THEN [steps |-> <<resumeStep,
                                   Step(remainingSFSVs[1],
                                        remainingSFSVs[Len(remainingSFSVs)],
                                        NoToken)>>,
                       err |-> NoErr]
                 ELSE [steps |-> <<resumeStep>> \o TailSteps(remainingSFSVs, 1),
                       err |-> NoErr]

\* the resume branch of doPlanning
ResumeSteps(sfsvsIn, tok, resumeTokenRaw, one) ==
    LET sorted == SortVersionListByCreateTXGThenBookmarkLTSnapshot(sfsvsIn)
        fromIdx == FindFromIdx(sorted, tok, 1, 0)
        toVersionIdx == FindToIdx(sorted, tok, 1, 0)
    IN  IF toVersionIdx = 0
        THEN [steps |-> <<>>, err |-> "resume token toguid not found on sender"]
        ELSE IF fromIdx = toVersionIdx
        THEN [steps |-> <<>>,
              err |-> "resume token fromguid and toguid match same version"]
        ELSE LET fromVersion == IF fromIdx = 0 THEN NilVersion ELSE sorted[fromIdx]
                 resumeStep == Step(fromVersion, sorted[toVersionIdx],
                                    resumeTokenRaw)
                 remainingSFSVs ==
                    SelectSeq(SubSeq(sorted, toVersionIdx, Len(sorted)),
                              IsSnapshot)
             IN  IF one /\ Len(remainingSFSVs) > 1
                 THEN [steps |-> <<resumeStep,
                                   Step(remainingSFSVs[1],
                                        remainingSFSVs[Len(remainingSFSVs)],
                                        NoToken)>>,
                       err |-> NoErr]
                 ELSE [steps |-> <<resumeStep>> \o TailSteps(remainingSFSVs, 1),
                       err |-> NoErr]

\* PathSteps that sets the collapsed to-version and goes on without the break
RECURSIVE PathSteps_NoBreak(_, _, _)
PathSteps_NoBreak(path, i, one) ==
    IF i > Len(path) - 1 THEN <<>>
    ELSE LET step == Step(path[i], path[i + 1], NoToken)
             sendStream == /\ step.from # NilVersion
                           /\ one
                           /\ step.from.Type = Snapshot
         IN  IF sendStream
             THEN <<[step EXCEPT !.to = path[Len(path)]]>>
                    \o PathSteps_NoBreak(path, i + 1, one)
             ELSE <<step>> \o PathSteps_NoBreak(path, i + 1, one)

\* PathSteps that collapses whether or not oneStep is set
RECURSIVE PathSteps_IgnoresOneStep(_, _, _)
PathSteps_IgnoresOneStep(path, i, one) ==
    IF i > Len(path) - 1 THEN <<>>
    ELSE LET step == Step(path[i], path[i + 1], NoToken)
             sendStream == /\ step.from # NilVersion
                           /\ step.from.Type = Snapshot
         IN  IF sendStream
             THEN <<[step EXCEPT !.to = path[Len(path)]]>>
             ELSE <<step>> \o PathSteps_IgnoresOneStep(path, i + 1, one)

\* PathSteps that breaks without moving the to-version to the end of the path
RECURSIVE PathSteps_KeepsTo(_, _, _)
PathSteps_KeepsTo(path, i, one) ==
    IF i > Len(path) - 1 THEN <<>>
    ELSE LET step == Step(path[i], path[i + 1], NoToken)
             sendStream == /\ step.from # NilVersion
                           /\ one
                           /\ step.from.Type = Snapshot
         IN  IF sendStream
             THEN <<step>>
             ELSE <<step>> \o PathSteps_KeepsTo(path, i + 1, one)

\* the loop of the non-resume branch that turns a path into steps
RECURSIVE PathSteps(_, _, _)
PathSteps(path, i, one) ==
    IF i > Len(path) - 1 THEN <<>>
    ELSE LET step == Step(path[i], path[i + 1], NoToken)
             sendStream == /\ step.from # NilVersion
                           /\ one
                           /\ step.from.Type = Snapshot
         IN  IF sendStream
             THEN <<[step EXCEPT !.to = path[Len(path)]]>>
             ELSE <<step>> \o PathSteps(path, i + 1, one)

PlanResult(steps, err, panicked, path, resumed, calls) ==
    [steps |-> steps, err |-> err, panicked |-> panicked, path |-> path,
     resumed |-> resumed, calls |-> calls, conflict |-> NoConflict]

NoPlan == PlanResult(<<>>, NoErr, FALSE, <<>>, FALSE, {})

\* doPlanning without the error for a placeholder on the sender and a
\* filesystem that is no placeholder on the receiver
doPlanning_PlaceholderIgnoresReceiver(sFS, rFS, sVersions, rVersions, initialReplication, one, f) ==
    IF sFS.IsPlaceholder
    THEN IF rFS.present /\ ~rFS.IsPlaceholder
         THEN PlanResult(<<>>, NoErr, FALSE, <<>>, FALSE, {})
         ELSE PlanResult(<<>>, NoErr, FALSE, <<>>, FALSE, {})
    ELSE
    LET listCalls == {"sender.ListFilesystemVersions"} \cup
            (IF needReceiverVersions(rFS)
             THEN {"receiver.ListFilesystemVersions"} ELSE {})
        listErr == listBothVersionsError(rFS, f)
        rv == IF needReceiverVersions(rFS) THEN rVersions ELSE <<>>
        hasToken == rFS.present /\ rFS.ResumeToken # NoToken
        resumeTokenRaw == IF hasToken THEN rFS.ResumeToken ELSE NoToken
        tok == ParseResumeToken(resumeTokenRaw)
    IN  IF listErr # NoErr
        THEN PlanResult(<<>>, listErr, FALSE, <<>>, FALSE, listCalls)
        ELSE IF Len(sVersions) < 1
        THEN PlanResult(<<>>, "sender does not have any versions", FALSE,
                        <<>>, FALSE, listCalls)
        ELSE IF hasToken /\ tok.err
        THEN PlanResult(<<>>, "cannot decode resume token", FALSE, <<>>,
                        FALSE, listCalls)
        ELSE
        LET derived ==
                IF hasToken
                THEN LET res == ResumeSteps(sVersions, tok, resumeTokenRaw, one)
                     IN  PlanResult(res.steps, res.err, FALSE, <<>>, TRUE, {})
                ELSE LET inc == IncrementalPath(rv, sVersions)
                         upd == IF inc.conflict # NoConflict
                                THEN tryAutoresolveConflict(inc.conflict,
                                        initialReplication)
                                ELSE [path |-> inc.path, err |-> NoErr,
                                      conflict |-> NoConflict]
                     IN  IF upd.err # NoErr
                         THEN [PlanResult(<<>>, upd.err, FALSE, <<>>, FALSE, {})
                                  EXCEPT !.conflict = upd.conflict]
                         ELSE IF Len(upd.path) = 1
                         THEN PlanResult(<<>>, "panic", TRUE, upd.path, FALSE, {})
                         ELSE PlanResult(PathSteps(upd.path, 1, one), NoErr,
                                         FALSE, upd.path, FALSE, {})
        IN  IF derived.err # NoErr \/ Len(derived.steps) = 0
            THEN [derived EXCEPT !.calls = listCalls]
            ELSE [derived EXCEPT
                    !.steps = updateSizeEstimates(derived.steps, f.dry).steps,
                    !.calls = listCalls \cup {"sender.SendDry"}]

\* doPlanning that looks for the token's fromguid in the receiver's list
doPlanning_ResumeChecksReceiver(sFS, rFS, sVersions, rVersions, initialReplication, one, f) ==
    IF sFS.IsPlaceholder
    THEN IF rFS.present /\ ~rFS.IsPlaceholder
         THEN PlanResult(<<>>,
                "sender filesystem is placeholder, but receiver filesystem is not",
                FALSE, <<>>, FALSE, {})
         ELSE PlanResult(<<>>, NoErr, FALSE, <<>>, FALSE, {})
    ELSE
    LET listCalls == {"sender.ListFilesystemVersions"} \cup
            (IF needReceiverVersions(rFS)
             THEN {"receiver.ListFilesystemVersions"} ELSE {})
        listErr == listBothVersionsError(rFS, f)
        rv == IF needReceiverVersions(rFS) THEN rVersions ELSE <<>>
        hasToken == rFS.present /\ rFS.ResumeToken # NoToken
        resumeTokenRaw == IF hasToken THEN rFS.ResumeToken ELSE NoToken
        tok == ParseResumeToken(resumeTokenRaw)
    IN  IF listErr # NoErr
        THEN PlanResult(<<>>, listErr, FALSE, <<>>, FALSE, listCalls)
        ELSE IF Len(sVersions) < 1
        THEN PlanResult(<<>>, "sender does not have any versions", FALSE,
                        <<>>, FALSE, listCalls)
        ELSE IF hasToken /\ tok.err
        THEN PlanResult(<<>>, "cannot decode resume token", FALSE, <<>>,
                        FALSE, listCalls)
        ELSE
        LET derived ==
                IF hasToken
                THEN LET res == ResumeSteps(sVersions, tok, resumeTokenRaw, one)
                         held == \E i \in 1..Len(rv) : rv[i].Guid = tok.FromGUID
                     IN  IF tok.HasFromGUID /\ ~held
                         THEN PlanResult(<<>>,
                                "receiver does not have the resume token's fromguid",
                                FALSE, <<>>, TRUE, {})
                         ELSE PlanResult(res.steps, res.err, FALSE, <<>>,
                                         TRUE, {})
                ELSE LET inc == IncrementalPath(rv, sVersions)
                         upd == IF inc.conflict # NoConflict
                                THEN tryAutoresolveConflict(inc.conflict,
                                        initialReplication)
                                ELSE [path |-> inc.path, err |-> NoErr,
                                      conflict |-> NoConflict]
                     IN  IF upd.err # NoErr
                         THEN [PlanResult(<<>>, upd.err, FALSE, <<>>, FALSE, {})
                                  EXCEPT !.conflict = upd.conflict]
                         ELSE IF Len(upd.path) = 1
                         THEN PlanResult(<<>>, "panic", TRUE, upd.path, FALSE, {})
                         ELSE PlanResult(PathSteps(upd.path, 1, one), NoErr,
                                         FALSE, upd.path, FALSE, {})
        IN  IF derived.err # NoErr \/ Len(derived.steps) = 0
            THEN [derived EXCEPT !.calls = listCalls]
            ELSE [derived EXCEPT
                    !.steps = updateSizeEstimates(derived.steps, f.dry).steps,
                    !.calls = listCalls \cup {"sender.SendDry"}]

\* Filesystem.doPlanning; the versions are what the two ListFilesystemVersions
\* calls return when they do not fail
doPlanning(sFS, rFS, sVersions, rVersions, initialReplication, one, f) ==
    IF sFS.IsPlaceholder
    THEN IF rFS.present /\ ~rFS.IsPlaceholder
         THEN PlanResult(<<>>,
                "sender filesystem is placeholder, but receiver filesystem is not",
                FALSE, <<>>, FALSE, {})
         ELSE PlanResult(<<>>, NoErr, FALSE, <<>>, FALSE, {})
    ELSE
    LET listCalls == {"sender.ListFilesystemVersions"} \cup
            (IF needReceiverVersions(rFS)
             THEN {"receiver.ListFilesystemVersions"} ELSE {})
        listErr == listBothVersionsError(rFS, f)
        rv == IF needReceiverVersions(rFS) THEN rVersions ELSE <<>>
        hasToken == rFS.present /\ rFS.ResumeToken # NoToken
        resumeTokenRaw == IF hasToken THEN rFS.ResumeToken ELSE NoToken
        tok == ParseResumeToken(resumeTokenRaw)
    IN  IF listErr # NoErr
        THEN PlanResult(<<>>, listErr, FALSE, <<>>, FALSE, listCalls)
        ELSE IF Len(sVersions) < 1
        THEN PlanResult(<<>>, "sender does not have any versions", FALSE,
                        <<>>, FALSE, listCalls)
        ELSE IF hasToken /\ tok.err
        THEN PlanResult(<<>>, "cannot decode resume token", FALSE, <<>>,
                        FALSE, listCalls)
        ELSE
        LET derived ==
                IF hasToken
                THEN LET res == ResumeSteps(sVersions, tok, resumeTokenRaw, one)
                     IN  PlanResult(res.steps, res.err, FALSE, <<>>, TRUE, {})
                ELSE LET inc == IncrementalPath(rv, sVersions)
                         upd == IF inc.conflict # NoConflict
                                THEN tryAutoresolveConflict(inc.conflict,
                                        initialReplication)
                                ELSE [path |-> inc.path, err |-> NoErr,
                                      conflict |-> NoConflict]
                     IN  IF upd.err # NoErr
                         THEN [PlanResult(<<>>, upd.err, FALSE, <<>>, FALSE, {})
                                  EXCEPT !.conflict = upd.conflict]
                         ELSE IF Len(upd.path) = 1
                         THEN PlanResult(<<>>, "panic", TRUE, upd.path, FALSE, {})
                         ELSE PlanResult(PathSteps(upd.path, 1, one), NoErr,
                                         FALSE, upd.path, FALSE, {})
        IN  IF derived.err # NoErr \/ Len(derived.steps) = 0
            THEN [derived EXCEPT !.calls = listCalls]
            ELSE [derived EXCEPT
                    !.steps = updateSizeEstimates(derived.steps, f.dry).steps,
                    !.calls = listCalls \cup {"sender.SendDry"}]

(***************************************************************************)
(* Inputs of planning                                                      *)
(***************************************************************************)
\* the sequences of at most n distinct elements of S
DistinctSeqs(S, n) ==
    UNION {{s \in [1..k -> S] : \A i, j \in 1..k : i # j => s[i] # s[j]} :
           k \in 0..n}

\* on the sender, the version with GUID g was created in TXG g; a bookmark
\* has the GUID and the TXG of the snapshot it was made of
SenderVersions ==
    {Version(t, g, g) : t \in {Snapshot, Bookmark}, g \in 1..MaxGuid}

\* the sender's versions by creation, the bookmark before its snapshot
SenderVersionsByCreation ==
    [i \in 1..(2 * MaxGuid) |->
        Version(IF i % 2 = 1 THEN Bookmark ELSE Snapshot,
                (i + 1) \div 2, (i + 1) \div 2)]

Reverse(l) == [i \in 1..Len(l) |-> l[Len(l) + 1 - i]]

\* what a sender lists oldest first: at most MaxVers of its versions
SortedSenderLists ==
    {LET picked(v) == v \in S IN SelectSeq(SenderVersionsByCreation, picked) :
        S \in {T \in SUBSET SenderVersions : Cardinality(T) <= MaxVers}}

\* what the sender lists: its versions oldest first or newest first
SenderLists == SortedSenderLists \cup {Reverse(l) : l \in SortedSenderLists}

\* the versions that both sides hold were created in the same order on both
SharedInSenderOrder(sender, receiver) ==
    \A i, j \in 1..Len(receiver) :
        (/\ i < j
         /\ receiver[i].Guid \in Guids(sender)
         /\ receiver[j].Guid \in Guids(sender))
            => receiver[i].Guid < receiver[j].Guid

\* what the receiver lists: snapshots with GUIDs of the sender or the GUID
\* MaxGuid + 1 the sender does not have, the i-th created in the receiver's
\* TXG i
ReceiverLists(n) ==
    {[i \in 1..Len(gs) |-> Version(Snapshot, gs[i], i)] :
        gs \in DistinctSeqs(1..(MaxGuid + 1), n)}

\* the resume tokens a receiver reports: undecodable, or with a toguid or
\* none, and with a fromguid or none that is not above the toguid
Tokens ==
    {GarbageToken} \cup
    {tok \in (0..MaxGuid) \X (0..MaxGuid) : tok[2] = 0 \/ tok[1] <= tok[2]}

NoFaults ==
    [slist |-> FALSE, rlist |-> FALSE, rfirst |-> FALSE, dry |-> FALSE,
     step |-> FALSE]

AbsentFS == [present |-> FALSE, IsPlaceholder |-> FALSE, ResumeToken |-> NoToken]

ReceiverFS(isPlaceholder, token) ==
    [present |-> TRUE, IsPlaceholder |-> isPlaceholder, ResumeToken |-> token]

\* the locals of Step.doReplication and Step.sendRecv before a Step runs
NoCur ==
    [step |-> 0, sr |-> buildSendRequest(Step(NilVersion, NilVersion, NoToken)),
     UsedResumeToken |-> FALSE, streamOpened |-> FALSE, streamClosed |-> FALSE,
     streamLen |-> 0, byteCounterSet |-> FALSE, count |-> 0, err |-> NoErr]

\* Step.ReportInfo was not called on a step yet
NoReport == [seen |-> FALSE, BytesReplicated |-> 0]

(***************************************************************************)
(* Planner.Plan / Planner.doPlanning and Planner.WaitForConnectivity.      *)
(* Plan lists the filesystems of both endpoints in two goroutines of an    *)
(* errgroup and pairs them by path; WaitForConnectivity pings both         *)
(* endpoints in two goroutines and waits for them with a WaitGroup.        *)
(***************************************************************************)
Sides == {"sender", "receiver"}

Paths == {"zroot/a", "zroot/b", "zroot/c"}

\* a nil *pdu.Filesystem
NilFilesystem == [present |-> FALSE, Path |-> "", IsPlaceholder |-> FALSE]

\* the pdu.Filesystem values an endpoint lists
PduFilesystems ==
    {[present |-> TRUE, Path |-> p, IsPlaceholder |-> b] :
        p \in Paths, b \in BOOLEAN}

\* what ListFilesystems of an endpoint can return: every dataset once
FilesystemLists ==
    {l \in UNION {[1..n -> PduFilesystems] : n \in 0..MaxFS} :
        \A i, j \in 1..Len(l) : l[i].Path = l[j].Path => i = j}

\* a nil error of WaitForConnectivity
NilError == [type |-> "nil", msg |-> <<>>, cause |-> {}]

\* the errors Endpoint.WaitForConnectivity returns: two types of error, each
\* with one of two messages
PingErrors ==
    {[type |-> t, msg |-> <<m>>, cause |-> {}] :
        t \in {"*net.OpError", "*errors.errorString"},
        m \in {"connection refused", "i/o timeout"}}

\* the error ListFilesystems of endpoint side returns when it fails
ListFilesystemsError(side) ==
    IF side = "sender" THEN "sender list filesystems failed"
    ELSE "receiver list filesystems failed"

\* the error of a call made under a context that is done
ContextCanceled == "context canceled"

\* the endpoints as the Planner finds them before any call
NoEndpoints ==
    [sfss |-> <<>>, rfss |-> <<>>,
     listFails |-> [side \in Sides |-> FALSE],
     ping |-> [side \in Sides |-> NilError]]

\* the Planner before Plan or WaitForConnectivity is called
NoPlanner ==
    [op |-> "idle",
     task |-> [side \in Sides |-> "none"],
     events |-> <<>>,
     sfss |-> <<>>, rfss |-> <<>>,
     gerr |-> NoErr, ctxDone |-> FALSE,
     senderErr |-> NilError, receiverErr |-> NilError, wg |-> 0,
     returned |-> FALSE,
     q |-> <<>>, err |-> NoErr, connErr |-> NilError]

\* the inner loop of Planner.doPlanning: the receiver's filesystem with the
\* path, nil when there is none
RECURSIVE findReceiverFS(_, _, _, _)
findReceiverFS(rfss, path, idx, rFS) ==
    IF idx > Len(rfss) THEN rFS
    ELSE findReceiverFS(rfss, path, idx + 1,
            IF rfss[idx].Path = path THEN rfss[idx] ELSE rFS)

\* the Filesystem Planner.doPlanning appends to q for the sender's fs
Filesystem(fs, rFS) ==
    [Path |-> fs.Path, senderFS |-> fs, receiverFS |-> rFS]

\* the pairing loop that takes the receiver's filesystem at the position of
\* the sender's instead of the one with its path
pairByPath_ByPosition(sfss, rfss) ==
    [i \in 1..Len(sfss) |->
        Filesystem(sfss[i],
                   IF i <= Len(rfss) THEN rfss[i] ELSE NilFilesystem)]

\* the pairing loop of Planner.doPlanning
pairByPath(sfss, rfss) ==
    [i \in 1..Len(sfss) |->
        Filesystem(sfss[i],
                   findReceiverFS(rfss, sfss[i].Path, 1, NilFilesystem))]

\* an event of a goroutine of the Planner
PlannerEv(side, ev, err) == [side |-> side, ev |-> ev, err |-> err]

\* Planner.Plan is called: errgroup.WithContext and the two g.Go
PlanCall ==
    /\ planner.op = "idle"
    /\ planner' = [planner EXCEPT !.op = "Plan",
                                  !.task = [side \in Sides |-> "ready"]]
    /\ UNCHANGED <<endpoints, args, result>>
    /\ UNCHANGED fsVars

\* a goroutine of the group calls ListFilesystems of its endpoint
ListFilesystemsCall(side) ==
    /\ planner.op = "Plan"
    /\ planner.task[side] = "ready"
    /\ planner' = [planner EXCEPT
            !.task[side] = "called",
            !.events = Append(@, PlannerEv(side, "call", NoErr))]
    /\ UNCHANGED <<endpoints, args, result>>
    /\ UNCHANGED fsVars

\* the errors ListFilesystems of endpoint side can return, NoErr for none: a
\* call under a context that is done may fail with the context's error
ListFilesystemsOutcomes(side) ==
    (IF endpoints.listFails[side]
     THEN {ListFilesystemsError(side)} ELSE {NoErr})
    \cup (IF planner.ctxDone THEN {ContextCanceled} ELSE {})

\* ListFilesystemsReturn that does not cancel the group's context
ListFilesystemsReturn_DoesNotCancel(side) ==
    /\ planner.op = "Plan"
    /\ planner.task[side] = "called"
    /\ \E err \in ListFilesystemsOutcomes(side) :
          planner' = [planner EXCEPT
            !.task[side] = "done",
            !.events = Append(@, PlannerEv(side, "return", err)),
            !.sfss = IF side = "sender" /\ err = NoErr
                     THEN endpoints.sfss ELSE @,
            !.rfss = IF side = "receiver" /\ err = NoErr
                     THEN endpoints.rfss ELSE @,
            !.gerr = IF err # NoErr /\ @ = NoErr THEN err ELSE @]
    /\ UNCHANGED <<endpoints, args, result>>
    /\ UNCHANGED fsVars

\* ListFilesystems returns to its goroutine, which returns to the group: the
\* first error is kept and cancels the group's context
ListFilesystemsReturn(side) ==
    /\ planner.op = "Plan"
    /\ planner.task[side] = "called"
    /\ \E err \in ListFilesystemsOutcomes(side) :
          planner' = [planner EXCEPT
            !.task[side] = "done",
            !.events = Append(@, PlannerEv(side, "return", err)),
            !.sfss = IF side = "sender" /\ err = NoErr
                     THEN endpoints.sfss ELSE @,
            !.rfss = IF side = "receiver" /\ err = NoErr
                     THEN endpoints.rfss ELSE @,
            !.gerr = IF err # NoErr /\ @ = NoErr THEN err ELSE @,
            !.ctxDone = @ \/ err # NoErr]
    /\ UNCHANGED <<endpoints, args, result>>
    /\ UNCHANGED fsVars

\* g.Wait returns after both goroutines and Planner.doPlanning and Plan
\* return: the group's error, or the filesystems paired by path
PlanReturn ==
    /\ planner.op = "Plan"
    /\ ~planner.returned
    /\ \A side \in Sides : planner.task[side] = "done"
    /\ planner' = [planner EXCEPT
            !.returned = TRUE,
            !.ctxDone = TRUE,
            !.err = planner.gerr,
            !.q = IF planner.gerr # NoErr THEN <<>>
                  ELSE pairByPath(planner.sfss, planner.rfss)]
    /\ UNCHANGED <<endpoints, args, result>>
    /\ UNCHANGED fsVars

\* Planner.WaitForConnectivity is called: wg.Add(2) and the two goroutines
WaitForConnectivityCall ==
    /\ planner.op = "idle"
    /\ planner' = [planner EXCEPT !.op = "WaitForConnectivity",
                                  !.wg = 2,
                                  !.task = [side \in Sides |-> "ready"]]
    /\ UNCHANGED <<endpoints, args, result>>
    /\ UNCHANGED fsVars

\* doPing calls Endpoint.WaitForConnectivity
PingCall(side) ==
    /\ planner.op = "WaitForConnectivity"
    /\ planner.task[side] = "ready"
    /\ planner' = [planner EXCEPT
            !.task[side] = "called",
            !.events = Append(@, PlannerEv(side, "call", NilError))]
    /\ UNCHANGED <<endpoints, args, result>>
    /\ UNCHANGED fsVars

\* Endpoint.WaitForConnectivity returns: doPing stores the error and calls
\* wg.Done
PingReturn(side) ==
    /\ planner.op = "WaitForConnectivity"
    /\ planner.task[side] = "called"
    /\ planner' = [planner EXCEPT
            !.task[side] = "done",
            !.events = Append(@, PlannerEv(side, "return", endpoints.ping[side])),
            !.senderErr = IF side = "sender" THEN endpoints.ping[side] ELSE @,
            !.receiverErr = IF side = "receiver" THEN endpoints.ping[side] ELSE @,
            !.wg = @ - 1]
    /\ UNCHANGED <<endpoints, args, result>>
    /\ UNCHANGED fsVars

\* fmt.Errorf("%s is not reachable: %w", side, err)
NotReachable(side, err) ==
    [type |-> "*fmt.wrapError",
     msg |-> <<side, " is not reachable: ">> \o err.msg,
     cause |-> {err}]

\* the switch of Planner.WaitForConnectivity
connectivityError(senderErr, receiverErr) ==
    CASE senderErr = NilError /\ receiverErr = NilError -> NilError
      [] senderErr # NilError /\ receiverErr # NilError ->
            IF senderErr.msg = receiverErr.msg
            THEN [type |-> "*errors.errorString",
                  msg |-> <<"sender and receiver are not reachable: ">>
                            \o senderErr.msg,
                  cause |-> {}]
            ELSE [type |-> "*errors.errorString",
                  msg |-> <<"sender and receiver are not reachable:",
                            "\n  sender: ">> \o senderErr.msg
                            \o <<"\n  receiver: ">> \o receiverErr.msg,
                  cause |-> {}]
      [] OTHER ->
            IF senderErr # NilError THEN NotReachable("sender", senderErr)
            ELSE NotReachable("receiver", receiverErr)

\* WaitForConnectivityReturn that returns when one of the pings returned
WaitForConnectivityReturn_AfterFirstPing ==
    /\ planner.op = "WaitForConnectivity"
    /\ ~planner.returned
    /\ planner.wg <= 1
    /\ planner' = [planner EXCEPT
            !.returned = TRUE,
            !.connErr = connectivityError(planner.senderErr,
                                          planner.receiverErr)]
    /\ UNCHANGED <<endpoints, args, result>>
    /\ UNCHANGED fsVars

\* wg.Wait returns and with it Planner.WaitForConnectivity
WaitForConnectivityReturn ==
    /\ planner.op = "WaitForConnectivity"
    /\ ~planner.returned
    /\ planner.wg = 0
    /\ planner' = [planner EXCEPT
            !.returned = TRUE,
            !.connErr = connectivityError(planner.senderErr,
                                          planner.receiverErr)]
    /\ UNCHANGED <<endpoints, args, result>>
    /\ UNCHANGED fsVars

\* no filesystem is planned or replicated
InitNoFS ==
    /\ senderFS = [IsPlaceholder |-> FALSE]
    /\ receiverFS = AbsentFS
    /\ sfsvs = <<>>
    /\ rfsvs = <<>>
    /\ policy = InitialReplicationAutoResolutionFail
    /\ oneStep = FALSE
    /\ faults = NoFaults
    /\ pc = "start"
    /\ plan = NoPlan
    /\ stepIdx = 0
    /\ cur = NoCur
    /\ trace = <<>>
    /\ promBytesReplicated = 0
    /\ prevPlan = NoPlan
    /\ byteCounters = <<>>
    /\ reported = <<>>

\* the Planner is not called
InitNoPlanner ==
    /\ endpoints = NoEndpoints
    /\ planner = NoPlanner

\* no function is applied
InitNoCall ==
    /\ args = NoArgs
    /\ result = NoResult

\* the endpoints list any filesystems and either may fail to list, or they
\* answer the ping with any error
InitPlanner ==
    /\ InitNoFS
    /\ InitNoCall
    /\ planner = NoPlanner
    /\ \/ endpoints \in
            {[NoEndpoints EXCEPT !.sfss = s, !.rfss = r, !.listFails = f] :
                s \in FilesystemLists, r \in FilesystemLists,
                f \in [Sides -> BOOLEAN]}
       \/ endpoints \in
            {[NoEndpoints EXCEPT !.ping = p] :
                p \in [Sides -> PingErrors \cup {NilError}]}

NextPlanner ==
    \/ PlanCall
    \/ \E side \in Sides : ListFilesystemsCall(side)
    \/ \E side \in Sides : ListFilesystemsReturn(side)
    \/ PlanReturn
    \/ WaitForConnectivityCall
    \/ \E side \in Sides : PingCall(side)
    \/ \E side \in Sides : PingReturn(side)
    \/ WaitForConnectivityReturn

SpecPlanner == InitPlanner /\ [][NextPlanner]_vars

(***************************************************************************)
(* Step.TargetEquals and Filesystem.EqualToPreviousAttempt, applied to     *)
(* Steps of any Filesystems                                                *)
(***************************************************************************)
\* Filesystem objects: the first two are different objects with one path
ParentFilesystems ==
    {[id |-> 1, Path |-> "zroot/a"], [id |-> 2, Path |-> "zroot/a"],
     [id |-> 3, Path |-> "zroot/b"]}

TargetVersions == {Version(Snapshot, g, g) : g \in 1..MaxTargetGuid}

\* a *Step with its parent; from may be nil
StepOf(parent, from, to) ==
    [type |-> "*Step", parent |-> parent, from |-> from, to |-> to]

\* a driver.Step that is no *Step
OtherStep ==
    [type |-> "other", parent |-> [id |-> 0, Path |-> ""],
     from |-> NilVersion, to |-> NilVersion]

TargetSteps ==
    {StepOf(p, from, to) :
        p \in ParentFilesystems,
        from \in TargetVersions \cup {NilVersion},
        to \in TargetVersions}

\* (*pdu.FilesystemVersion).GetGuid: 0 for nil
GetGuid(v) == IF v = NilVersion THEN 0 ELSE v.Guid

\* EqualToPreviousAttempt that compares the identity of the objects
EqualToPreviousAttempt_ByIdentity(f, g) == f.id = g.id

\* Filesystem.EqualToPreviousAttempt; the parent of a *Step is a *Filesystem,
\* so the type assertion succeeds
EqualToPreviousAttempt(f, g) == f.Path = g.Path

\* TargetEquals that compares the to-versions only
TargetEquals_IgnoresFrom(s, t) ==
    IF t.type # "*Step" THEN [panicked |-> FALSE, equal |-> FALSE]
    ELSE IF ~EqualToPreviousAttempt(s.parent, t.parent)
    THEN [panicked |-> TRUE, equal |-> FALSE]
    ELSE [panicked |-> FALSE, equal |-> GetGuid(s.to) = GetGuid(t.to)]

\* Step.TargetEquals: whether it panicked and what it returned
TargetEquals(s, t) ==
    IF t.type # "*Step" THEN [panicked |-> FALSE, equal |-> FALSE]
    ELSE IF ~EqualToPreviousAttempt(s.parent, t.parent)
    THEN [panicked |-> TRUE, equal |-> FALSE]
    ELSE [panicked |-> FALSE,
          equal |-> /\ GetGuid(s.from) = GetGuid(t.from)
                    /\ GetGuid(s.to) = GetGuid(t.to)]

\* any three Steps
InitTargetEquals ==
    /\ InitNoFS
    /\ InitNoPlanner
    /\ args \in {[op |-> "TargetEquals", steps |-> <<s, t, u>>] :
                    s \in TargetSteps, t \in TargetSteps, u \in TargetSteps}
    /\ result = NoResult

\* TargetEquals is called on every Step with every Step, and on the first
\* with a driver.Step of another type
TargetEqualsCall ==
    /\ args.op = "TargetEquals"
    /\ result.op = "none"
    /\ result' =
          [op |-> "TargetEquals",
           eq |-> [a \in 1..3 |-> [b \in 1..3 |->
                      TargetEquals(args.steps[a], args.steps[b])]],
           other |-> TargetEquals(args.steps[1], OtherStep)]
    /\ UNCHANGED <<endpoints, planner, args>>
    /\ UNCHANGED fsVars

NextTargetEquals == TargetEqualsCall

SpecTargetEquals == InitTargetEquals /\ [][NextTargetEquals]_vars

(***************************************************************************)
(* ZFSDestroyFilesystemVersions (package zfs): doDestroy, buildBatches,    *)
(* tryBatch and doDestroyBatchedRec.  A request is known by its position   *)
(* in reqs; a batch is a sequence of positions.  The state that the        *)
(* functions pass on is st: ErrOut of every request, the arguments of the  *)
(* calls to the destroyer, the batches that tryBatch got, and whether one  *)
(* of them panicked.                                                       *)
(***************************************************************************)
\* the strings of the requests in the order of strings.Compare
Strings == <<"", "p/a", "p/b", "s1", "s2">>

Rank(str) == CHOOSE k \in 1..Len(Strings) : Strings[k] = str

SnapNames == {"s1", "s2"}

\* the requests: two snapshots on each of two filesystems, one request
\* without filesystem and one without name
DestroySnapOps ==
    {[Filesystem |-> fs, Name |-> n] : fs \in {"p/a", "p/b"}, n \in SnapNames}
    \cup {[Filesystem |-> "", Name |-> "s1"], [Filesystem |-> "p/a", Name |-> ""]}

\* a nil error of the destroyer
NoDestroyError == [kind |-> "nil", Undestroyable |-> {}]

DestroyError(kind) == [kind |-> kind, Undestroyable |-> {}]

\* *ErrOut before doDestroy wrote it
ErrOutUnset == DestroyError("unset")

\* the destroyers: a batch of more than argMax names fails with E2BIG, a
\* batch with undestroyable snapshots fails with a DestroySnapshotsError
\* that names them, a batch with another failing snapshot fails with
\* another error
Destroyers ==
    [class : [SnapNames -> {"destroyable", "undestroyable", "failing"}],
     argMax : 0..MaxReqs]

\* how the destroyer d treats the snapshot name; a destroy without a name
\* fails
ClassOf(d, name) == IF name \in SnapNames THEN d.class[name] ELSE "failing"

\* destroyer.Destroy for the snapshots names of one filesystem
Destroy(d, names) ==
    LET undestroyable ==
            {names[i] : i \in {j \in 1..Len(names) :
                                 ClassOf(d, names[j]) = "undestroyable"}}
    IN  IF Len(names) > d.argMax THEN DestroyError("E2BIG")
        ELSE IF undestroyable # {}
        THEN [kind |-> "DestroySnapshotsError", Undestroyable |-> undestroyable]
        ELSE IF \E i \in 1..Len(names) : ClassOf(d, names[i]) = "failing"
        THEN DestroyError("destroy failed")
        ELSE NoDestroyError

\* the state before doDestroy
InitialSt(reqs) ==
    [ErrOut |-> [i \in 1..Len(reqs) |-> ErrOutUnset],
     calls |-> <<>>, tryBatch |-> <<>>, panicked |-> FALSE]

\* setDestroySnapOpErr
setDestroySnapOpErr(st, b, err) ==
    [st EXCEPT !.ErrOut = [i \in 1..Len(@) |->
        IF \E k \in 1..Len(b) : b[k] = i THEN err ELSE @[i]]]

\* doDestroySeq from position k of the batch on
RECURSIVE doDestroySeq(_, _, _, _, _)
doDestroySeq(reqs, batch, k, d, st) ==
    IF k > Len(batch) THEN st
    ELSE LET r == reqs[batch[k]]
         IN  doDestroySeq(reqs, batch, k + 1, d,
                [st EXCEPT
                    !.ErrOut[batch[k]] = Destroy(d, <<r.Name>>),
                    !.calls = Append(@, [Filesystem |-> r.Filesystem,
                                         Names |-> <<r.Name>>])])

\* the less function of buildBatches: by filesystem, then by name
LessOp(reqs, i, j) ==
    IF reqs[i].Filesystem # reqs[j].Filesystem
    THEN Rank(reqs[i].Filesystem) < Rank(reqs[j].Filesystem)
    ELSE Rank(reqs[i].Name) < Rank(reqs[j].Name)

\* sort.SliceStable of buildBatches: the positions from k on are inserted
\* one by one behind the sorted ones that are not greater
RECURSIVE sortStable(_, _, _, _)
sortStable(reqs, batch, k, sorted) ==
    IF k > Len(batch) THEN sorted
    ELSE LET before == SelectSeq(sorted,
                          LAMBDA i : ~LessOp(reqs, batch[k], i))
             after == SelectSeq(sorted, LAMBDA i : LessOp(reqs, batch[k], i))
         IN  sortStable(reqs, batch, k + 1, before \o <<batch[k]>> \o after)

\* the inner loop of buildBatches: the end of the batch that starts at
\* consumed
RECURSIVE batchConsumedUntil(_, _, _, _, _)
batchConsumedUntil(reqs, sorted, consumed, until, maxBatchSize) ==
    IF /\ until <= Len(sorted)
       /\ (maxBatchSize < 1 \/ until - consumed < maxBatchSize)
       /\ reqs[sorted[until]].Filesystem = reqs[sorted[consumed]].Filesystem
    THEN batchConsumedUntil(reqs, sorted, consumed, until + 1, maxBatchSize)
    ELSE until

\* the outer loop of buildBatches
RECURSIVE groupByFS(_, _, _, _, _)
groupByFS(reqs, sorted, consumed, perFS, maxBatchSize) ==
    IF consumed > Len(sorted) THEN perFS
    ELSE LET until == batchConsumedUntil(reqs, sorted, consumed, consumed,
                                         maxBatchSize)
         IN  groupByFS(reqs, sorted, until,
                       Append(perFS, SubSeq(sorted, consumed, until - 1)),
                       maxBatchSize)

\* buildBatches
buildBatches(reqs, batch, maxBatchSize) ==
    IF Len(batch) = 0 THEN <<>>
    ELSE groupByFS(reqs, sortStable(reqs, batch, 1, <<>>), 1, <<>>,
                   maxBatchSize)

\* the snapshot names of a batch
BatchNames(reqs, batch) == [k \in 1..Len(batch) |-> reqs[batch[k]].Name]

\* tryBatch that takes an empty batch for a broken promise
tryBatch_PanicsOnEmptyBatch(reqs, batch, d, st) ==
    IF Len(batch) = 0
    THEN [st |-> [st EXCEPT !.tryBatch = Append(@, batch), !.panicked = TRUE],
          err |-> NoDestroyError]
    ELSE IF \E k \in 1..Len(batch) :
                reqs[batch[k]].Filesystem # reqs[batch[1]].Filesystem
    THEN [st |-> [st EXCEPT !.tryBatch = Append(@, batch), !.panicked = TRUE],
          err |-> NoDestroyError]
    ELSE [st |-> [st EXCEPT
                    !.tryBatch = Append(@, batch),
                    !.calls = Append(@,
                        [Filesystem |-> reqs[batch[1]].Filesystem,
                         Names |-> BatchNames(reqs, batch)])],
          err |-> Destroy(d, BatchNames(reqs, batch))]

\* tryBatch: the state after it and the error it returns
tryBatch(reqs, batch, d, st) ==
    IF Len(batch) = 0
    THEN [st |-> [st EXCEPT !.tryBatch = Append(@, batch)],
          err |-> NoDestroyError]
    ELSE IF \E k \in 1..Len(batch) :
                reqs[batch[k]].Filesystem # reqs[batch[1]].Filesystem
    THEN [st |-> [st EXCEPT !.tryBatch = Append(@, batch), !.panicked = TRUE],
          err |-> NoDestroyError]
    ELSE [st |-> [st EXCEPT
                    !.tryBatch = Append(@, batch),
                    !.calls = Append(@,
                        [Filesystem |-> reqs[batch[1]].Filesystem,
                         Names |-> BatchNames(reqs, batch)])],
          err |-> Destroy(d, BatchNames(reqs, batch))]

\* doDestroyBatchedRec; a panic ends it
RECURSIVE doDestroyBatchedRec(_, _, _, _)
doDestroyBatchedRec(reqs, fsbatch, d, st) ==
    IF st.panicked THEN st
    ELSE IF Len(fsbatch) <= 1 THEN doDestroySeq(reqs, fsbatch, 1, d, st)
    ELSE
    LET r == tryBatch(reqs, fsbatch, d, st)
        half == Len(fsbatch) \div 2
        isUndestroyable(i) == reqs[i].Name \in r.err.Undestroyable
        strippedBatch == SelectSeq(fsbatch, LAMBDA i : ~isUndestroyable(i))
        remaining == SelectSeq(fsbatch, isUndestroyable)
        stripped == tryBatch(reqs, strippedBatch, d, r.st)
    IN  IF r.st.panicked THEN r.st
        ELSE IF r.err = NoDestroyError
        THEN setDestroySnapOpErr(r.st, fsbatch, NoDestroyError)
        ELSE IF r.err.kind = "E2BIG"
        THEN doDestroyBatchedRec(reqs,
                SubSeq(fsbatch, half + 1, Len(fsbatch)), d,
                doDestroyBatchedRec(reqs, SubSeq(fsbatch, 1, half), d, r.st))
        ELSE IF r.err.kind = "DestroySnapshotsError"
        THEN IF stripped.st.panicked THEN stripped.st
             ELSE IF stripped.err # NoDestroyError
             THEN doDestroySeq(reqs, fsbatch, 1, d, stripped.st)
             ELSE doDestroySeq(reqs, remaining, 1, d,
                    setDestroySnapOpErr(stripped.st, strippedBatch,
                                        NoDestroyError))
        ELSE doDestroySeq(reqs, fsbatch, 1, d, r.st)

\* doDestroyBatched from batch k of perFS on
RECURSIVE doDestroyBatched(_, _, _, _, _)
doDestroyBatched(reqs, perFS, k, d, st) ==
    IF k > Len(perFS) THEN st
    ELSE doDestroyBatched(reqs, perFS, k + 1, d,
            doDestroyBatchedRec(reqs, perFS[k], d, st))

\* the positions of the requests that doDestroy accepts
Validated(reqs) ==
    SelectSeq([i \in 1..Len(reqs) |-> i],
              LAMBDA i : reqs[i].Filesystem # "" /\ reqs[i].Name # "")

\* the state after the validation loop of doDestroy
ValidatedSt(reqs) ==
    [InitialSt(reqs) EXCEPT !.ErrOut = [i \in 1..Len(reqs) |->
        IF reqs[i].Filesystem = ""
        THEN DestroyError("Filesystem must not be an empty string")
        ELSE IF reqs[i].Name = ""
        THEN DestroyError("Name must not be an empty string")
        ELSE ErrOutUnset]]

\* doDestroy
doDestroy(reqs, d, maxBatchSize) ==
    doDestroyBatched(reqs,
        buildBatches(reqs, Validated(reqs), maxBatchSize), 1, d,
        ValidatedSt(reqs))

\* any requests, any destroyer, ZREPL_DESTROY_MAX_BATCH_SIZE unset or 2
DestroyArgs ==
    [op : {"doDestroy"},
     reqs : UNION {[1..n -> DestroySnapOps] : n \in 0..MaxReqs},
     d : Destroyers,
     maxBatchSize : {0, 2}]

InitDestroy ==
    /\ InitNoFS
    /\ InitNoPlanner
    /\ args \in DestroyArgs
    /\ result = NoResult

\* ZFSDestroyFilesystemVersions is called with the requests; tryBatch is
\* called with all of them as one batch
DestroyCall ==
    /\ args.op = "doDestroy"
    /\ result.op = "none"
    /\ result' =
          [op |-> "doDestroy",
           st |-> doDestroy(args.reqs, args.d, args.maxBatchSize),
           tryBatch |-> tryBatch(args.reqs,
                                 [i \in 1..Len(args.reqs) |-> i],
                                 args.d, InitialSt(args.reqs))]
    /\ UNCHANGED <<endpoints, planner, args>>
    /\ UNCHANGED fsVars

NextDestroy == DestroyCall

SpecDestroy == InitDestroy /\ [][NextDestroy]_vars

(***************************************************************************)
(* doDestroy step by step: one invocation of doDestroyBatchedRec per step. *)
(* result.work is the list of the invocations that are still to run, in    *)
(* the order in which the code runs them: the batches of doDestroyBatched  *)
(* that were not started and, before them, the halves of a batch that      *)
(* failed with E2BIG.                                                      *)
(***************************************************************************)
\* the body of doDestroyBatchedRec that tries the whole batch again after
\* E2BIG
doDestroyBatchedRecBody_RetriesWholeBatch(reqs, fsbatch, d, st) ==
    IF Len(fsbatch) <= 1
    THEN [st |-> doDestroySeq(reqs, fsbatch, 1, d, st), rec |-> <<>>]
    ELSE
    LET r == tryBatch(reqs, fsbatch, d, st)
        isUndestroyable(i) == reqs[i].Name \in r.err.Undestroyable
        strippedBatch == SelectSeq(fsbatch, LAMBDA i : ~isUndestroyable(i))
        remaining == SelectSeq(fsbatch, isUndestroyable)
        stripped == tryBatch(reqs, strippedBatch, d, r.st)
    IN  IF r.st.panicked THEN [st |-> r.st, rec |-> <<>>]
        ELSE IF r.err = NoDestroyError
        THEN [st |-> setDestroySnapOpErr(r.st, fsbatch, NoDestroyError),
              rec |-> <<>>]
        ELSE IF r.err.kind = "E2BIG"
        THEN [st |-> r.st, rec |-> <<fsbatch>>]
        ELSE IF r.err.kind = "DestroySnapshotsError"
        THEN IF stripped.st.panicked THEN [st |-> stripped.st, rec |-> <<>>]
             ELSE IF stripped.err # NoDestroyError
             THEN [st |-> doDestroySeq(reqs, fsbatch, 1, d, stripped.st),
                   rec |-> <<>>]
             ELSE [st |-> doDestroySeq(reqs, remaining, 1, d,
                            setDestroySnapOpErr(stripped.st, strippedBatch,
                                                NoDestroyError)),
                   rec |-> <<>>]
        ELSE [st |-> doDestroySeq(reqs, fsbatch, 1, d, r.st), rec |-> <<>>]

\* the body of one invocation of doDestroyBatchedRec: the state after it
\* and the batches of its recursive calls
doDestroyBatchedRecBody(reqs, fsbatch, d, st) ==
    IF Len(fsbatch) <= 1
    THEN [st |-> doDestroySeq(reqs, fsbatch, 1, d, st), rec |-> <<>>]
    ELSE
    LET r == tryBatch(reqs, fsbatch, d, st)
        half == Len(fsbatch) \div 2
        isUndestroyable(i) == reqs[i].Name \in r.err.Undestroyable
        strippedBatch == SelectSeq(fsbatch, LAMBDA i : ~isUndestroyable(i))
        remaining == SelectSeq(fsbatch, isUndestroyable)
        stripped == tryBatch(reqs, strippedBatch, d, r.st)
    IN  IF r.st.panicked THEN [st |-> r.st, rec |-> <<>>]
        ELSE IF r.err = NoDestroyError
        THEN [st |-> setDestroySnapOpErr(r.st, fsbatch, NoDestroyError),
              rec |-> <<>>]
        ELSE IF r.err.kind = "E2BIG"
        THEN [st |-> r.st,
              rec |-> <<SubSeq(fsbatch, 1, half),
                        SubSeq(fsbatch, half + 1, Len(fsbatch))>>]
        ELSE IF r.err.kind = "DestroySnapshotsError"
        THEN IF stripped.st.panicked THEN [st |-> stripped.st, rec |-> <<>>]
             ELSE IF stripped.err # NoDestroyError
             THEN [st |-> doDestroySeq(reqs, fsbatch, 1, d, stripped.st),
                   rec |-> <<>>]
             ELSE [st |-> doDestroySeq(reqs, remaining, 1, d,
                            setDestroySnapOpErr(stripped.st, strippedBatch,
                                                NoDestroyError)),
                   rec |-> <<>>]
        ELSE [st |-> doDestroySeq(reqs, fsbatch, 1, d, r.st), rec |-> <<>>]

\* before the call of doDestroy
InitDestroySteps ==
    /\ InitNoFS
    /\ InitNoPlanner
    /\ InitNoCall

\* the calls whose requests come in descending order, equal ones
\* included, so that buildBatches has to reverse them
DescendingDestroyArgs ==
    {a \in DestroyArgs :
        \A i, j \in 1..Len(a.reqs) : i < j => ~LessOp(a.reqs, i, j)}

\* doDestroy is called with any of these requests and any destroyer: it
\* validates the requests and doDestroyBatched builds the batches
DestroyStart ==
    /\ args.op = "none"
    /\ result.op = "none"
    /\ \E a \in DescendingDestroyArgs :
        /\ args' = a
        /\ result' = [op |-> "doDestroyBatched",
                      st |-> ValidatedSt(a.reqs),
                      work |-> buildBatches(a.reqs, Validated(a.reqs),
                                            a.maxBatchSize)]
    /\ UNCHANGED <<endpoints, planner>>
    /\ UNCHANGED fsVars

\* the next invocation of doDestroyBatchedRec runs up to its recursive
\* calls or its return
DestroyBatchedRec ==
    /\ result.op = "doDestroyBatched"
    /\ Len(result.work) >= 1
    /\ ~result.st.panicked
    /\ LET b == doDestroyBatchedRecBody(args.reqs, Head(result.work), args.d,
                                        result.st)
       IN  result' = [result EXCEPT !.st = b.st,
                                    !.work = b.rec \o Tail(result.work)]
    /\ UNCHANGED <<endpoints, planner, args>>
    /\ UNCHANGED fsVars

\* doDestroyBatched and doDestroy return
DestroyReturn ==
    /\ result.op = "doDestroyBatched"
    /\ Len(result.work) = 0 \/ result.st.panicked
    /\ result' = [result EXCEPT !.op = "returned"]
    /\ UNCHANGED <<endpoints, planner, args>>
    /\ UNCHANGED fsVars

NextDestroySteps ==
    \/ DestroyStart
    \/ DestroyBatchedRec
    \/ DestroyReturn

\* once called, doDestroy runs in the goroutine of its caller, which goes
\* on as long as it has a step to take
SpecDestroySteps ==
    /\ InitDestroySteps
    /\ [][NextDestroySteps]_vars
    /\ WF_vars(DestroyBatchedRec \/ DestroyReturn)

(***************************************************************************)
(* The snapshot plan of package snapper: makePlan, plan.execute and        *)
(* plan.report.  args holds the filesystems of the plan; result holds the  *)
(* plan and the locals of execute: snaps is the state of every             *)
(* snapProgress, todo the filesystems the range loop has not visited,      *)
(* fs the filesystem of a running iteration, as a set of one, report what  *)
(* the last call of report returned.  planFailed remembers the             *)
(* filesystems whose hook plan could not be made.                          *)
(***************************************************************************)
SnapPending == "SnapPending"
SnapStarted == "SnapStarted"
SnapDone == "SnapDone"
SnapError == "SnapError"

SnapStates == {SnapPending, SnapStarted, SnapDone, SnapError}

\* no filesystem is in the running iteration
NoSnapFS == {}

\* makePlan, and the locals of execute before it is called
makePlan(fss) ==
    [op |-> "makePlan",
     snaps |-> [fs \in fss |-> SnapPending],
     todo |-> {},
     fs |-> NoSnapFS,
     anyFsHadErr |-> FALSE,
     ok |-> FALSE,
     planFailed |-> {},
     report |-> [fs \in fss |-> SnapPending]]

\* the code at the label updateFSState that does not count the error of a
\* filesystem that was never started
updateFSState_ForgetsPlanError(r, fs, fsHadErr) ==
    [r EXCEPT
        !.anyFsHadErr = @ \/ (fsHadErr /\ r.snaps[fs] = SnapStarted),
        !.snaps[fs] = IF fsHadErr THEN SnapError ELSE SnapDone,
        !.todo = @ \ {fs},
        !.fs = NoSnapFS]

\* the code at the label updateFSState, which ends the iteration for fs
updateFSState(r, fs, fsHadErr) ==
    [r EXCEPT
        !.anyFsHadErr = @ \/ fsHadErr,
        !.snaps[fs] = IF fsHadErr THEN SnapError ELSE SnapDone,
        !.todo = @ \ {fs},
        !.fs = NoSnapFS]

\* a plan for any of the filesystems
InitSnapper ==
    /\ InitNoFS
    /\ InitNoPlanner
    /\ args \in [op : {"execute"}, fss : SUBSET (1..MaxSnapFS)]
    /\ result = makePlan(args.fss)

\* plan.execute is called
ExecuteCall ==
    /\ args.op = "execute"
    /\ result.op = "makePlan"
    /\ result' = [result EXCEPT !.op = "execute", !.todo = args.fss]
    /\ UNCHANGED <<endpoints, planner, args>>
    /\ UNCHANGED fsVars

\* the range loop takes a filesystem, in the order of the map, and
\* CopyFilteredForFilesystem or hooks.NewPlan fails for it: goto
\* updateFSState
HookPlanFails ==
    /\ result.op = "execute"
    /\ result.fs = NoSnapFS
    /\ \E fs \in result.todo :
        result' = [updateFSState(result, fs, TRUE) EXCEPT
                      !.planFailed = @ \cup {fs}]
    /\ UNCHANGED <<endpoints, planner, args>>
    /\ UNCHANGED fsVars

\* the range loop takes a filesystem, its hook plan is made, and the
\* progress is set to SnapStarted while holding plan.mtx
SnapStart ==
    /\ result.op = "execute"
    /\ result.fs = NoSnapFS
    /\ \E fs \in result.todo :
        result' = [result EXCEPT !.fs = {fs}, !.snaps[fs] = SnapStarted]
    /\ UNCHANGED <<endpoints, planner, args>>
    /\ UNCHANGED fsVars

\* hookPlan.Run returns, with or without an error in its report, and the
\* iteration reaches updateFSState
HookPlanRunReturn ==
    /\ result.op = "execute"
    /\ result.fs # NoSnapFS
    /\ \E fs \in result.fs : \E fsHadErr \in BOOLEAN :
        result' = updateFSState(result, fs, fsHadErr)
    /\ UNCHANGED <<endpoints, planner, args>>
    /\ UNCHANGED fsVars

\* the range loop is over and execute returns
ExecuteReturn ==
    /\ result.op = "execute"
    /\ result.fs = NoSnapFS
    /\ result.todo = {}
    /\ result' = [result EXCEPT !.op = "returned", !.ok = ~result.anyFsHadErr]
    /\ UNCHANGED <<endpoints, planner, args>>
    /\ UNCHANGED fsVars

\* plan.report, called from another goroutine at any moment: it reads the
\* states while holding plan.mtx
SnapReport ==
    /\ result.op \in {"makePlan", "execute", "returned"}
    /\ result' = [result EXCEPT !.report = result.snaps]
    /\ UNCHANGED <<endpoints, planner, args>>
    /\ UNCHANGED fsVars

NextSnapper ==
    \/ ExecuteCall
    \/ HookPlanFails
    \/ SnapStart
    \/ HookPlanRunReturn
    \/ ExecuteReturn
    \/ SnapReport

SpecSnapper == InitSnapper /\ [][NextSnapper]_vars

(***************************************************************************)
(* Filesystem.PlanFS                                                       *)
(***************************************************************************)
\* the part of the state that planning does not touch
InitExec ==
    /\ pc = "start"
    /\ plan = NoPlan
    /\ stepIdx = 0
    /\ cur = NoCur
    /\ trace = <<>>
    /\ promBytesReplicated = 0
    /\ prevPlan = NoPlan
    /\ byteCounters = <<>>
    /\ reported = <<>>
    /\ InitNoPlanner
    /\ InitNoCall

\* the endpoint calls that may fail during planning: none, or the dry run
PlanFaults == {NoFaults, [NoFaults EXCEPT !.dry = TRUE]}

\* the ListFilesystemVersions calls that may fail: the sender's, the
\* receiver's, or both in either order
ListFaults ==
    {[NoFaults EXCEPT !.slist = TRUE], [NoFaults EXCEPT !.rlist = TRUE],
     [NoFaults EXCEPT !.slist = TRUE, !.rlist = TRUE],
     [NoFaults EXCEPT !.slist = TRUE, !.rlist = TRUE, !.rfirst = TRUE]}

\* any filesystem pair, version lists and resume token within the bounds; a
\* failing dry run is tried with every pair without resume token and, with
\* a token, with a receiver that lists nothing; a failing list call is
\* tried with every kind of receiver and short lists
InitPlan ==
    /\ InitExec
    /\ policy \in Policies
    /\ oneStep \in BOOLEAN
    /\ faults \in PlanFaults \cup ListFaults
    /\ \/ \* what the endpoints would list when no list call fails
          /\ senderFS = [IsPlaceholder |-> FALSE]
          /\ receiverFS \in {AbsentFS, ReceiverFS(TRUE, NoToken),
                             ReceiverFS(FALSE, NoToken),
                             ReceiverFS(FALSE, <<1, 2>>),
                             ReceiverFS(TRUE, <<1, 2>>),
                             ReceiverFS(TRUE, GarbageToken)}
          /\ sfsvs \in {l \in SortedSenderLists :
                         \A i \in 1..Len(l) : l[i].Type = Snapshot}
          /\ rfsvs \in {<<>>, <<Version(Snapshot, 1, 1)>>}
       \/ \* a placeholder on the sender
          /\ faults \in PlanFaults
          /\ senderFS = [IsPlaceholder |-> TRUE]
          /\ receiverFS \in {AbsentFS, ReceiverFS(TRUE, NoToken),
                             ReceiverFS(FALSE, NoToken)}
          /\ sfsvs \in {l \in SortedSenderLists : Len(l) <= 1}
          /\ rfsvs = <<>>
       \/ \* no filesystem or a placeholder on the receiver
          /\ faults \in PlanFaults
          /\ senderFS = [IsPlaceholder |-> FALSE]
          /\ receiverFS \in {AbsentFS, ReceiverFS(TRUE, NoToken)}
          /\ sfsvs \in SenderLists
          /\ rfsvs = <<>>
       \/ \* a filesystem on the receiver, no resume token
          /\ faults \in PlanFaults
          /\ senderFS = [IsPlaceholder |-> FALSE]
          /\ receiverFS = ReceiverFS(FALSE, NoToken)
          /\ sfsvs \in SenderLists
          /\ rfsvs \in ReceiverLists(MaxRecv)
       \/ \* a filesystem on the receiver with a resume token
          /\ faults \in PlanFaults
          /\ senderFS = [IsPlaceholder |-> FALSE]
          /\ receiverFS \in {ReceiverFS(FALSE, t) : t \in Tokens}
          /\ sfsvs \in SenderLists
          /\ rfsvs \in IF faults = NoFaults THEN ReceiverLists(MaxRecvResume)
                       ELSE {<<>>}
    /\ SharedInSenderOrder(sfsvs, rfsvs)

\* Filesystem.PlanFS
PlanFS ==
    /\ pc = "start"
    /\ plan' = doPlanning(senderFS, receiverFS, sfsvs, rfsvs, policy, oneStep,
                          faults)
    /\ pc' = "planned"
    /\ byteCounters' = <<>>
    /\ reported' = [i \in 1..Len(plan'.steps) |-> NoReport]
    /\ UNCHANGED <<endpoints, planner, args, result>>
    /\ UNCHANGED <<senderFS, receiverFS, sfsvs, rfsvs, policy, oneStep, faults,
                   stepIdx, cur, trace, promBytesReplicated, prevPlan>>

NextPlan == PlanFS

SpecPlan == InitPlan /\ [][NextPlan]_vars

(***************************************************************************)
(* Step.doReplication and Step.sendRecv, run by the driver for the steps   *)
(* of the plan one after another.  The task is suspended while a call to   *)
(* an endpoint is in flight: pc is "send" during Sender.Send, "recv"       *)
(* during Receiver.Receive and "completing" during Sender.SendCompleted.   *)
(***************************************************************************)
\* the error value an endpoint returns when its call op fails
EndpointError(op) ==
    CASE op = "Send" -> "send request failed"
      [] op = "Receive" -> "receive request failed"
      [] op = "SendCompleted" -> "send completed failed"
      [] OTHER -> NoErr

\* one call to an endpoint or its return, as recorded in trace; a return
\* that is not ok carries the error of the endpoint, and the return of Send
\* tells whether the result and the stream were nil
Ev(op, ev, step, req, ok) ==
    [op |-> op, ev |-> ev, step |-> step, req |-> req, ok |-> ok,
     err |-> IF ok THEN NoErr ELSE EndpointError(op),
     sresNil |-> FALSE, streamNil |-> FALSE]

\* a pdu.ReceiveReq that asks to clear the resume token when the send used it
ReceiveReq_ClearsUsedToken(sr, usedResumeToken) ==
    [Filesystem |-> "fs", To |-> sr.To, ClearResumeToken |-> usedResumeToken,
     ReplicationConfig |-> "replication_config"]

\* the pdu.ReceiveReq of sendRecv
ReceiveReq(sr, usedResumeToken) ==
    [Filesystem |-> "fs", To |-> sr.To, ClearResumeToken |-> ~usedResumeToken,
     ReplicationConfig |-> "replication_config"]

\* the pdu.SendCompletedReq of doReplication
SendCompletedReq(sr) == [OriginalReq |-> sr]

SendOutcome(err, sresNil, streamNil, used, len) ==
    [err |-> err, sresNil |-> sresNil, streamNil |-> streamNil,
     UsedResumeToken |-> used, len |-> len]

\* what Sender.Send may return for the request sr: (nil, nil, err), a nil
\* result with or without stream, a result without stream, or a result and
\* a stream of some length; a sender without faults returns a result and a
\* stream of MaxBytes bytes and reports that it used the resume token
\* exactly when the request has one
SendOutcomes(sr, f) ==
    IF sr.To = NilVersion
    THEN {SendOutcome(TRUE, TRUE, TRUE, FALSE, 0)}
    ELSE {SendOutcome(FALSE, FALSE, FALSE, u, n) :
            u \in (IF f.step THEN BOOLEAN ELSE {sr.ResumeToken # NoToken}),
            n \in (IF f.step THEN 0..MaxBytes ELSE {MaxBytes})}
         \cup (IF f.step
               THEN {SendOutcome(TRUE, TRUE, TRUE, FALSE, 0),
                     SendOutcome(FALSE, TRUE, TRUE, FALSE, 0),
                     SendOutcome(FALSE, TRUE, FALSE, FALSE, 0),
                     SendOutcome(FALSE, FALSE, TRUE, FALSE, 0)}
               ELSE {})

\* the driver calls Step.Step on the next step of the plan: doReplication
\* builds the send request and sendRecv calls Sender.Send
StepStart ==
    /\ pc = "planned"
    /\ plan.err = NoErr
    /\ stepIdx < Len(plan.steps)
    /\ LET sr == buildSendRequest(plan.steps[stepIdx + 1])
       IN  /\ cur' = [NoCur EXCEPT !.step = stepIdx + 1, !.sr = sr]
           /\ trace' = Append(trace, Ev("Send", "call", stepIdx + 1, sr, TRUE))
    /\ pc' = "send"
    /\ UNCHANGED <<endpoints, planner, args, result>>
    /\ UNCHANGED <<senderFS, receiverFS, sfsvs, rfsvs, policy, oneStep, faults,
                   plan, stepIdx, promBytesReplicated, prevPlan, byteCounters,
                   reported>>

\* Sender.Send returns: sendRecv checks the result, installs the byte
\* counter and calls Receiver.Receive
\* SendReturn of a sendRecv that does not check the send result for nil
SendReturn_AcceptsNilResult ==
    /\ pc = "send"
    /\ \E out \in SendOutcomes(cur.sr, faults) :
        IF out.err \/ out.streamNil
        THEN /\ cur' = [cur EXCEPT
                    !.streamOpened = ~out.streamNil,
                    !.err = IF out.err THEN EndpointError("Send")
                            ELSE IF out.sresNil
                            THEN "send request returned nil send result"
                            ELSE "send request did not return a stream"]
             /\ trace' = Append(trace,
                    [Ev("Send", "return", cur.step, cur.sr, FALSE) EXCEPT
                        !.err = IF out.err THEN EndpointError("Send") ELSE NoErr,
                        !.sresNil = out.sresNil,
                        !.streamNil = out.streamNil])
             /\ pc' = "failed"
        ELSE /\ cur' = [cur EXCEPT
                    !.UsedResumeToken = out.UsedResumeToken,
                    !.streamOpened = TRUE,
                    !.streamLen = out.len,
                    !.byteCounterSet = TRUE,
                    !.count = 0]
             /\ trace' = trace \o
                    <<[Ev("Send", "return", cur.step, cur.sr, TRUE) EXCEPT
                        !.sresNil = out.sresNil,
                        !.streamNil = out.streamNil],
                      Ev("Receive", "call", cur.step,
                         ReceiveReq(cur.sr, out.UsedResumeToken), TRUE)>>
             /\ pc' = "recv"
    /\ UNCHANGED <<endpoints, planner, args, result>>
    /\ UNCHANGED <<senderFS, receiverFS, sfsvs, rfsvs, policy, oneStep, faults,
                   plan, stepIdx, promBytesReplicated, prevPlan, byteCounters,
                   reported>>

SendReturn ==
    /\ pc = "send"
    /\ \E out \in SendOutcomes(cur.sr, faults) :
        IF out.err \/ out.sresNil \/ out.streamNil
        THEN /\ cur' = [cur EXCEPT
                    !.streamOpened = ~out.streamNil,
                    !.err = IF out.err THEN EndpointError("Send")
                            ELSE IF out.sresNil
                            THEN "send request returned nil send result"
                            ELSE "send request did not return a stream"]
             /\ trace' = Append(trace,
                    [Ev("Send", "return", cur.step, cur.sr, FALSE) EXCEPT
                        !.err = IF out.err THEN EndpointError("Send") ELSE NoErr,
                        !.sresNil = out.sresNil,
                        !.streamNil = out.streamNil])
             /\ pc' = "failed"
        ELSE /\ cur' = [cur EXCEPT
                    !.UsedResumeToken = out.UsedResumeToken,
                    !.streamOpened = TRUE,
                    !.streamLen = out.len,
                    !.byteCounterSet = TRUE,
                    !.count = 0]
             /\ trace' = trace \o
                    <<[Ev("Send", "return", cur.step, cur.sr, TRUE) EXCEPT
                        !.sresNil = out.sresNil,
                        !.streamNil = out.streamNil],
                      Ev("Receive", "call", cur.step,
                         ReceiveReq(cur.sr, out.UsedResumeToken), TRUE)>>
             /\ pc' = "recv"
    /\ UNCHANGED <<endpoints, planner, args, result>>
    /\ UNCHANGED <<senderFS, receiverFS, sfsvs, rfsvs, policy, oneStep, faults,
                   plan, stepIdx, promBytesReplicated, prevPlan, byteCounters,
                   reported>>

\* the receiver reads one byte of the stream through the byte counter,
\* which counts it
StreamRead ==
    /\ pc = "recv"
    /\ cur.count < cur.streamLen
    /\ cur' = [cur EXCEPT !.count = cur.count + 1]
    /\ trace' = Append(trace, Ev("Stream", "read", cur.step, cur.sr, TRUE))
    /\ UNCHANGED <<endpoints, planner, args, result>>
    /\ UNCHANGED <<senderFS, receiverFS, sfsvs, rfsvs, policy, oneStep, faults,
                   pc, plan, stepIdx, promBytesReplicated, prevPlan,
                   byteCounters, reported>>

\* TXG of the next snapshot the receiver creates
NextTXG(l) == IF Len(l) = 0 THEN 1 ELSE l[Len(l)].CreateTXG + 1

\* the receiver after it received the stream of sr: it holds the to-version
\* under the sender's GUID and has no resume token
Received(sr) == Append(rfsvs, Version(Snapshot, sr.To.Guid, NextTXG(rfsvs)))

\* the filesystem the receiver keeps when a receive was interrupted: as
\* before, or with a resume token for the interrupted stream
Interrupted(sr) ==
    {receiverFS, ReceiverFS(FALSE, <<sr.From.Guid, sr.To.Guid>>)}

\* a receiver holds a GUID at most once, so it cannot receive a version it has
CanReceive(sr) == sr.To.Guid \notin Guids(rfsvs)

\* ReceiveReturn that reports success to the driver without waiting for
\* SendCompleted to return
ReceiveReturn_DoesNotAwaitSendCompleted ==
    /\ pc = "recv"
    /\ \E ok \in BOOLEAN :
        /\ ok => cur.count = cur.streamLen /\ CanReceive(cur.sr)
        /\ ~ok => faults.step \/ ~CanReceive(cur.sr)
        /\ promBytesReplicated' = promBytesReplicated + cur.count
        /\ IF ok
           THEN /\ cur' = [cur EXCEPT !.streamClosed = TRUE]
                /\ rfsvs' = Received(cur.sr)
                /\ receiverFS' = ReceiverFS(FALSE, NoToken)
                /\ trace' = trace \o
                        <<Ev("Receive", "return", cur.step,
                             ReceiveReq(cur.sr, cur.UsedResumeToken), TRUE),
                          Ev("SendCompleted", "call", cur.step,
                             SendCompletedReq(cur.sr), TRUE)>>
                /\ stepIdx' = stepIdx + 1
                /\ pc' = "planned"
           ELSE /\ cur' = [cur EXCEPT !.streamClosed = TRUE,
                                      !.err = EndpointError("Receive")]
                /\ rfsvs' = rfsvs
                /\ receiverFS' \in Interrupted(cur.sr)
                /\ trace' = Append(trace,
                        Ev("Receive", "return", cur.step,
                           ReceiveReq(cur.sr, cur.UsedResumeToken), FALSE))
                /\ stepIdx' = stepIdx
                /\ pc' = "failed"
    /\ byteCounters' = Append(byteCounters, cur.count)
    /\ UNCHANGED <<endpoints, planner, args, result>>
    /\ UNCHANGED <<senderFS, sfsvs, policy, oneStep, faults, plan, prevPlan,
                   reported>>

\* ReceiveReturn that tells the sender that replication completed also when
\* the receive failed
ReceiveReturn_NotifiesAfterFailure ==
    /\ pc = "recv"
    /\ \E ok \in BOOLEAN :
        /\ ok => cur.count = cur.streamLen /\ CanReceive(cur.sr)
        /\ ~ok => faults.step \/ ~CanReceive(cur.sr)
        /\ promBytesReplicated' = promBytesReplicated + cur.count
        /\ IF ok
           THEN /\ cur' = [cur EXCEPT !.streamClosed = TRUE]
                /\ rfsvs' = Received(cur.sr)
                /\ receiverFS' = ReceiverFS(FALSE, NoToken)
                /\ trace' = trace \o
                        <<Ev("Receive", "return", cur.step,
                             ReceiveReq(cur.sr, cur.UsedResumeToken), TRUE),
                          Ev("SendCompleted", "call", cur.step,
                             SendCompletedReq(cur.sr), TRUE)>>
                /\ pc' = "completing"
           ELSE /\ cur' = [cur EXCEPT !.streamClosed = TRUE,
                                      !.err = EndpointError("Receive")]
                /\ rfsvs' = rfsvs
                /\ receiverFS' \in Interrupted(cur.sr)
                /\ trace' = trace \o
                        <<Ev("Receive", "return", cur.step,
                             ReceiveReq(cur.sr, cur.UsedResumeToken), FALSE),
                          Ev("SendCompleted", "call", cur.step,
                             SendCompletedReq(cur.sr), TRUE)>>
                /\ pc' = "completing"
    /\ byteCounters' = Append(byteCounters, cur.count)
    /\ UNCHANGED <<endpoints, planner, args, result>>
    /\ UNCHANGED <<senderFS, sfsvs, policy, oneStep, faults, plan, stepIdx,
                   prevPlan, reported>>

\* Receiver.Receive returns: the deferred functions of sendRecv add the
\* byte count to promBytesReplicated and close the stream; after a
\* successful receive doReplication calls Sender.SendCompleted with the
\* send request
\* ReceiveReturn of a sendRecv that adds the byte count to the filesystem's
\* counter when it installs the byte counter and not when it returns
ReceiveReturn_AddsBeforeReceive ==
    /\ pc = "recv"
    /\ \E ok \in BOOLEAN :
        /\ ok => cur.count = cur.streamLen /\ CanReceive(cur.sr)
        /\ ~ok => faults.step \/ ~CanReceive(cur.sr)
        /\ promBytesReplicated' = promBytesReplicated
        /\ IF ok
           THEN /\ cur' = [cur EXCEPT !.streamClosed = TRUE]
                /\ rfsvs' = Received(cur.sr)
                /\ receiverFS' = ReceiverFS(FALSE, NoToken)
                /\ trace' = trace \o
                        <<Ev("Receive", "return", cur.step,
                             ReceiveReq(cur.sr, cur.UsedResumeToken), TRUE),
                          Ev("SendCompleted", "call", cur.step,
                             SendCompletedReq(cur.sr), TRUE)>>
                /\ pc' = "completing"
           ELSE /\ cur' = [cur EXCEPT !.streamClosed = TRUE,
                                      !.err = EndpointError("Receive")]
                /\ rfsvs' = rfsvs
                /\ receiverFS' \in Interrupted(cur.sr)
                /\ trace' = Append(trace,
                        Ev("Receive", "return", cur.step,
                           ReceiveReq(cur.sr, cur.UsedResumeToken), FALSE))
                /\ pc' = "failed"
    /\ byteCounters' = Append(byteCounters, cur.count)
    /\ UNCHANGED <<endpoints, planner, args, result>>
    /\ UNCHANGED <<senderFS, sfsvs, policy, oneStep, faults, plan, stepIdx,
                   prevPlan, reported>>

\* ReceiveReturn of a sendRecv that adds to the counter only after a
\* successful Receive
ReceiveReturn_AddsOnSuccessOnly ==
    /\ pc = "recv"
    /\ \E ok \in BOOLEAN :
        /\ ok => cur.count = cur.streamLen /\ CanReceive(cur.sr)
        /\ ~ok => faults.step \/ ~CanReceive(cur.sr)
        /\ promBytesReplicated' =
            promBytesReplicated + (IF ok THEN cur.count ELSE 0)
        /\ IF ok
           THEN /\ cur' = [cur EXCEPT !.streamClosed = TRUE]
                /\ rfsvs' = Received(cur.sr)
                /\ receiverFS' = ReceiverFS(FALSE, NoToken)
                /\ trace' = trace \o
                        <<Ev("Receive", "return", cur.step,
                             ReceiveReq(cur.sr, cur.UsedResumeToken), TRUE),
                          Ev("SendCompleted", "call", cur.step,
                             SendCompletedReq(cur.sr), TRUE)>>
                /\ pc' = "completing"
           ELSE /\ cur' = [cur EXCEPT !.streamClosed = TRUE,
                                      !.err = EndpointError("Receive")]
                /\ rfsvs' = rfsvs
                /\ receiverFS' \in Interrupted(cur.sr)
                /\ trace' = Append(trace,
                        Ev("Receive", "return", cur.step,
                           ReceiveReq(cur.sr, cur.UsedResumeToken), FALSE))
                /\ pc' = "failed"
    /\ byteCounters' = Append(byteCounters, cur.count)
    /\ UNCHANGED <<endpoints, planner, args, result>>
    /\ UNCHANGED <<senderFS, sfsvs, policy, oneStep, faults, plan, stepIdx,
                   prevPlan, reported>>

ReceiveReturn ==
    /\ pc = "recv"
    /\ \E ok \in BOOLEAN :
        /\ ok => cur.count = cur.streamLen /\ CanReceive(cur.sr)
        /\ ~ok => faults.step \/ ~CanReceive(cur.sr)
        /\ promBytesReplicated' = promBytesReplicated + cur.count
        /\ IF ok
           THEN /\ cur' = [cur EXCEPT !.streamClosed = TRUE]
                /\ rfsvs' = Received(cur.sr)
                /\ receiverFS' = ReceiverFS(FALSE, NoToken)
                /\ trace' = trace \o
                        <<Ev("Receive", "return", cur.step,
                             ReceiveReq(cur.sr, cur.UsedResumeToken), TRUE),
                          Ev("SendCompleted", "call", cur.step,
                             SendCompletedReq(cur.sr), TRUE)>>
                /\ pc' = "completing"
           ELSE /\ cur' = [cur EXCEPT !.streamClosed = TRUE,
                                      !.err = EndpointError("Receive")]
                /\ rfsvs' = rfsvs
                /\ receiverFS' \in Interrupted(cur.sr)
                /\ trace' = Append(trace,
                        Ev("Receive", "return", cur.step,
                           ReceiveReq(cur.sr, cur.UsedResumeToken), FALSE))
                /\ pc' = "failed"
    /\ byteCounters' = Append(byteCounters, cur.count)
    /\ UNCHANGED <<endpoints, planner, args, result>>
    /\ UNCHANGED <<senderFS, sfsvs, policy, oneStep, faults, plan, stepIdx,
                   prevPlan, reported>>

\* Sender.SendCompleted returns and with it doReplication and Step.Step
\* SendCompletedReturn of a doReplication that returns a new error in place
\* of the one SendCompleted returned
SendCompletedReturn_ReplacesError ==
    /\ pc = "completing"
    /\ \E ok \in (IF faults.step THEN BOOLEAN ELSE {TRUE}) :
        /\ trace' = Append(trace,
                Ev("SendCompleted", "return", cur.step,
                   SendCompletedReq(cur.sr), ok))
        /\ IF ok
           THEN /\ stepIdx' = stepIdx + 1
                /\ pc' = "planned"
                /\ cur' = cur
           ELSE /\ stepIdx' = stepIdx
                /\ pc' = "failed"
                /\ cur' = [cur EXCEPT !.err =
                            "error telling sender that replication completed"]
    /\ UNCHANGED <<endpoints, planner, args, result>>
    /\ UNCHANGED <<senderFS, receiverFS, sfsvs, rfsvs, policy, oneStep, faults,
                   plan, promBytesReplicated, prevPlan, byteCounters, reported>>

SendCompletedReturn ==
    /\ pc = "completing"
    /\ \E ok \in (IF faults.step THEN BOOLEAN ELSE {TRUE}) :
        /\ trace' = Append(trace,
                Ev("SendCompleted", "return", cur.step,
                   SendCompletedReq(cur.sr), ok))
        /\ IF ok
           THEN /\ stepIdx' = stepIdx + 1
                /\ pc' = "planned"
                /\ cur' = cur
           ELSE /\ stepIdx' = stepIdx
                /\ pc' = "failed"
                /\ cur' = [cur EXCEPT !.err = EndpointError("SendCompleted")]
    /\ UNCHANGED <<endpoints, planner, args, result>>
    /\ UNCHANGED <<senderFS, receiverFS, sfsvs, rfsvs, policy, oneStep, faults,
                   plan, promBytesReplicated, prevPlan, byteCounters, reported>>

\* every step of the plan returned without error
AttemptSucceeded ==
    /\ pc = "planned"
    /\ plan.err = NoErr
    /\ stepIdx = Len(plan.steps)

\* the next attempt after one that succeeded: Filesystem.PlanFS on the
\* endpoints as the attempt left them
Replan ==
    /\ AttemptSucceeded
    /\ prevPlan' = plan
    /\ plan' = doPlanning(senderFS, receiverFS, sfsvs, rfsvs, policy, oneStep,
                          faults)
    /\ pc' = "replanned"
    /\ byteCounters' = <<>>
    /\ reported' = [i \in 1..Len(plan'.steps) |-> NoReport]
    /\ UNCHANGED <<endpoints, planner, args, result>>
    /\ UNCHANGED <<senderFS, receiverFS, sfsvs, rfsvs, policy, oneStep, faults,
                   stepIdx, cur, trace, promBytesReplicated>>

\* a resume token the receiver can hold next to its snapshots: what it
\* receives in part is not yet a snapshot, and what an incremental stream
\* starts from is one
TokenOfReceiver(raw, receiver) ==
    \/ raw = GarbageToken
    \/ /\ raw[1] \in {0} \cup Guids(receiver)
       /\ raw[2] \notin Guids(receiver)

\* endpoints without step faults, any filesystem pair within the bounds;
\* with a resume token planning does not read the policy, and one policy
\* stands for all
InitReplReliable ==
    /\ faults = NoFaults
    /\ policy \in Policies
    /\ oneStep \in BOOLEAN
    /\ senderFS = [IsPlaceholder |-> FALSE]
    /\ sfsvs \in SortedSenderLists
    /\ \/ /\ receiverFS \in {AbsentFS, ReceiverFS(TRUE, NoToken)}
          /\ rfsvs = <<>>
       \/ /\ receiverFS = ReceiverFS(FALSE, NoToken)
          /\ rfsvs \in ReceiverLists(MaxRecv)
       \/ /\ receiverFS \in {ReceiverFS(FALSE, t) : t \in Tokens}
          /\ rfsvs \in ReceiverLists(MaxRecvResume)
          /\ TokenOfReceiver(receiverFS.ResumeToken, rfsvs)
          /\ policy = InitialReplicationAutoResolutionMostRecent
    /\ SharedInSenderOrder(sfsvs, rfsvs)

\* endpoints whose Send, Receive and SendCompleted may fail, the sender
\* holding the snapshots 1..n
InitReplFaulty ==
    /\ faults = [NoFaults EXCEPT !.step = TRUE]
    /\ policy \in Policies
    /\ oneStep \in BOOLEAN
    /\ senderFS = [IsPlaceholder |-> FALSE]
    /\ sfsvs \in {[i \in 1..n |-> Version(Snapshot, i, i)] : n \in 1..MaxGuid}
    /\ \/ /\ receiverFS = AbsentFS
          /\ rfsvs = <<>>
       \/ /\ receiverFS \in {ReceiverFS(FALSE, NoToken),
                             ReceiverFS(FALSE, <<1, 2>>)}
          /\ rfsvs = <<Version(Snapshot, 1, 1)>>

InitRepl ==
    /\ InitExec
    /\ InitReplReliable \/ InitReplFaulty

NextRepl ==
    \/ PlanFS
    \/ StepStart
    \/ SendReturn
    \/ StreamRead
    \/ ReceiveReturn
    \/ SendCompletedReturn
    \/ Replan

SpecRepl == InitRepl /\ [][NextRepl]_vars

(***************************************************************************)
(* Step.ReportInfo, called by a reporter while the task above runs.  It    *)
(* reads Step.byteCounter under byteCounterMtx, which WithByteCounter      *)
(* holds when it installs the counter; Count() is an atomic load.  The     *)
(* other fields of the StepInfo do not change after planning.              *)
(***************************************************************************)
\* BytesReplicated as ReportInfo on step i finds it only while step i runs
BytesReplicated_OnlyWhileRunning(i) ==
    IF i = cur.step /\ pc = "recv" THEN cur.count ELSE 0

\* BytesReplicated of the StepInfo of step i: 0 while byteCounter is nil
BytesReplicated(i) ==
    IF i <= Len(byteCounters) THEN byteCounters[i]
    ELSE IF i = cur.step /\ cur.byteCounterSet THEN cur.count
    ELSE 0

ReportInfo ==
    /\ pc \in {"planned", "send", "recv", "completing", "failed"}
    /\ \E i \in 1..Len(plan.steps) :
        reported' = [reported EXCEPT
            ![i] = [seen |-> TRUE, BytesReplicated |-> BytesReplicated(i)]]
    /\ UNCHANGED <<endpoints, planner, args, result>>
    /\ UNCHANGED <<senderFS, receiverFS, sfsvs, rfsvs, policy, oneStep, faults,
                   pc, plan, stepIdx, cur, trace, promBytesReplicated,
                   prevPlan, byteCounters>>

\* endpoints whose calls may fail, with a reporter: the sender holds the
\* snapshots 1..n, n at most MaxReported, and the receiver nothing or the
\* first of them, and every snapshot is replicated in a step of its own
InitReport ==
    /\ InitExec
    /\ InitReplFaulty
    /\ policy = InitialReplicationAutoResolutionAll
    /\ ~oneStep
    /\ receiverFS.ResumeToken = NoToken
    /\ Len(sfsvs) <= MaxReported

NextReport ==
    \/ NextRepl
    \/ ReportInfo

SpecReport == InitReport /\ [][NextReport]_vars

(***************************************************************************)
(* Properties of the execution of steps (SpecRepl)                         *)
(***************************************************************************)
\* the positions in trace of the event ev of the call op of step i
Events(op, ev, i) ==
    {k \in 1..Len(trace) :
        trace[k].op = op /\ trace[k].ev = ev /\ trace[k].step = i}

\* the positions of the returns of call op of step i without error
Successes(op, i) == {k \in Events(op, "return", i) : trace[k].ok}

\* every event in later has an event of earlier before it
Precedes(earlier, later) == \A k \in later : \E j \in earlier : j < k

\* the steps the driver has started so far
Started == 1..cur.step

\* Step.Step of step i has returned
Returned(i) == i < cur.step \/ (i = cur.step /\ pc \notin {"send", "recv", "completing"})

\* the plan whose steps the driver executed
ExecutedPlan == IF pc = "replanned" THEN prevPlan ELSE plan

\* C1: a Step calls Send, then Receive, then SendCompleted, and returns
\* success only after SendCompleted returned; the Send of step n+1 starts
\* after the SendCompleted of step n returned
C1_SendReceiveSendCompletedInOrder ==
    /\ \A i \in Started :
        /\ Precedes(Events("Send", "call", i), Events("Send", "return", i))
        /\ Precedes(Successes("Send", i), Events("Receive", "call", i))
        /\ Precedes(Events("Receive", "call", i),
                    Events("Receive", "return", i))
        /\ Precedes(Successes("Receive", i),
                    Events("SendCompleted", "call", i))
        /\ Precedes(Events("SendCompleted", "call", i),
                    Events("SendCompleted", "return", i))
        /\ i > 1 => Precedes(Successes("SendCompleted", i - 1),
                             Events("Send", "call", i))
    /\ \A i \in 1..stepIdx : Successes("SendCompleted", i) # {}

C1_Witness ==
    /\ stepIdx = 2
    /\ Successes("SendCompleted", 1) # {}
    /\ Successes("SendCompleted", 2) # {}
    /\ Events("Send", "call", 3) # {}

\* C2: in one execution of a Step SendCompleted is called once if Send and
\* Receive succeeded and not at all otherwise, and its OriginalReq is the
\* request that Send got: filesystem, from, to, resume token and
\* replication config of the step
C2_SendCompletedOnceIffReceived ==
    \A i \in Started :
        LET calls == Events("SendCompleted", "call", i)
            received == Successes("Send", i) # {} /\ Successes("Receive", i) # {}
        IN  /\ Cardinality(calls) <= 1
            /\ calls # {} => received
            /\ (received /\ Returned(i)) => Cardinality(calls) = 1
            /\ \A k \in calls : \A j \in Events("Send", "call", i) :
                /\ trace[k].req.OriginalReq = trace[j].req
                /\ trace[j].req = buildSendRequest(ExecutedPlan.steps[i])

C2_Witness ==
    /\ stepIdx = 1
    /\ \E k \in Events("SendCompleted", "call", 1) :
        /\ trace[k].req.OriginalReq.ResumeToken # NoToken
        /\ trace[k].req.OriginalReq.From # NilVersion
    /\ Successes("Send", 2) # {}
    /\ Events("Receive", "return", 2) # {}
    /\ Events("SendCompleted", "call", 2) = {}
    /\ pc = "failed"

\* C3: when every step of an attempt was executed with success, planning
\* again yields no steps and no error
C3_ReplanAfterSuccessIsEmpty ==
    pc = "replanned" =>
        /\ plan.steps = <<>>
        /\ plan.err = NoErr
        /\ ~plan.panicked

C3_Witness ==
    /\ pc = "replanned"
    /\ Len(prevPlan.steps) = 3
    /\ \A i \in 1..3 : prevPlan.steps[i].to.Guid \in Guids(rfsvs)
    /\ receiverFS.ResumeToken = NoToken

(***************************************************************************)
(* Properties of planning (SpecPlan)                                       *)
(***************************************************************************)
Planned == pc = "planned"

\* every ListFilesystemVersions call that listBothVersions issues succeeds
Listed ==
    /\ ~faults.slist
    /\ ~(faults.rlist /\ needReceiverVersions(receiverFS))

\* the decoded resume token of the receiver's filesystem
Tok == ParseResumeToken(receiverFS.ResumeToken)

\* a plan with steps that came out of the resume branch
ResumePlanned == Planned /\ plan.resumed /\ plan.err = NoErr

\* a plan that came out of the non-resume branch with a path of two or more
\* entries
PathPlanned ==
    Planned /\ ~plan.resumed /\ plan.err = NoErr /\ Len(plan.path) >= 2

\* what identifies a step: from-version, to-version and resume token
Target(s) == <<s.from, s.to, s.resumeToken>>

SortedSender == SortVersionListByCreateTXGThenBookmarkLTSnapshot(sfsvs)

\* the sender's snapshots from version v onward, in TXG order
SnapshotsFrom(v) ==
    LET later(w) == w.Type = Snapshot /\ w.CreateTXG >= v.CreateTXG
    IN  SelectSeq(SortedSender, later)

\* the sender's version with the token's fromguid, the snapshot if there are
\* a snapshot and a bookmark, nil if there is none
TokenFromVersion ==
    LET cands == {i \in 1..Len(sfsvs) :
                    Tok.HasFromGUID /\ sfsvs[i].Guid = Tok.FromGUID}
    IN  IF cands = {} THEN NilVersion
        ELSE sfsvs[CHOOSE i \in cands :
                \/ sfsvs[i].Type = Snapshot
                \/ \A j \in cands : sfsvs[j].Type # Snapshot]

\* C4: every Step that planning emits has a non-nil to-version that is a
\* snapshot, for all version lists, tokens, policies and oneStep values
C4_EveryStepToIsSnapshot ==
    Planned =>
        \A i \in 1..Len(plan.steps) :
            /\ plan.steps[i].to # NilVersion
            /\ plan.steps[i].to.Type = Snapshot

\* C5 as stated: the first step of a plan derived from a decoded token T goes
\* to the version with T.to_guid, and T has no from-guid or the step's
\* from-version has T.from_guid
C5_Original_FirstStepHasTokenGuids ==
    ResumePlanned =>
        /\ plan.steps[1].to.Guid = Tok.ToGUID
        /\ \/ ~Tok.HasFromGUID
           \/ plan.steps[1].from.Guid = Tok.FromGUID

\* C5 amended: the first step of a plan derived from a decoded token T goes
\* to the version with T.to_guid; its from-version is nil when T has no
\* from-guid or the sender lists no version with T.from_guid, and has
\* T.from_guid otherwise
C5_FirstStepHasTokenGuidsOrNilFrom ==
    ResumePlanned =>
        /\ plan.steps[1].to.Guid = Tok.ToGUID
        /\ IF Tok.HasFromGUID /\ Tok.FromGUID \in Guids(sfsvs)
           THEN plan.steps[1].from.Guid = Tok.FromGUID
           ELSE plan.steps[1].from = NilVersion

C5_Witness ==
    /\ ResumePlanned
    /\ Tok.HasFromGUID
    /\ plan.steps[1].from.Guid = Tok.FromGUID
    /\ plan.steps[1].to.Guid = Tok.ToGUID

\* C6 as stated: a non-empty plan made with oneStep has 1 or 2 steps, and 2
\* only when a resume step is followed by a collapsed tail
C6_Original_OneStepLen ==
    (Planned /\ oneStep /\ plan.err = NoErr /\ Len(plan.steps) > 0) =>
        /\ Len(plan.steps) \in {1, 2}
        /\ Len(plan.steps) = 2 =>
            /\ plan.resumed
            /\ plan.steps[1].resumeToken # NoToken
            /\ plan.steps[2].from = plan.steps[1].to

\* C6 amended: a non-empty plan made with oneStep has 1 or 2 steps, and 2
\* only when a resume step is followed by a collapsed tail or when, without
\* a resume token, the path has more than two entries and starts with nil or
\* a bookmark, so that its first step is kept and the rest is collapsed
C6_OneStepLen ==
    (Planned /\ oneStep /\ plan.err = NoErr /\ Len(plan.steps) > 0) =>
        /\ Len(plan.steps) \in {1, 2}
        /\ Len(plan.steps) = 2 =>
            /\ plan.steps[2].from = plan.steps[1].to
            /\ \/ /\ plan.resumed
                  /\ plan.steps[1].resumeToken # NoToken
               \/ /\ ~plan.resumed
                  /\ Len(plan.path) > 2
                  /\ plan.path[1].Type # Snapshot
                  /\ plan.steps[1].to = plan.path[2]
                  /\ plan.steps[2].to = plan.path[Len(plan.path)]

C6_Witness ==
    /\ Planned /\ oneStep /\ plan.err = NoErr
    /\ ~plan.resumed
    /\ Len(plan.path) = 4
    /\ Len(plan.steps) = 2

\* C7: without resume token and with oneStep unset, a path p0..pn, n >= 1,
\* yields the n steps (p0 -> p1), ..., (p(n-1) -> pn) in this order; only the
\* first step may have a nil from-version
C7_PathYieldsConsecutiveSteps ==
    (PathPlanned /\ ~oneStep) =>
        /\ Len(plan.steps) = Len(plan.path) - 1
        /\ \A i \in 1..Len(plan.steps) :
            /\ plan.steps[i].from = plan.path[i]
            /\ plan.steps[i].to = plan.path[i + 1]
            /\ plan.steps[i].resumeToken = NoToken
            /\ i > 1 => plan.steps[i].from # NilVersion
            /\ i < Len(plan.steps) => plan.steps[i].to = plan.steps[i + 1].from
        /\ plan.steps[Len(plan.steps)].to = plan.path[Len(plan.path)]

C7_Witness ==
    /\ PathPlanned /\ ~oneStep
    /\ Len(plan.path) = 3
    /\ Len(plan.steps) = 2
    /\ plan.path[1].Type = Snapshot

\* C8: without resume token and with oneStep set, a path that starts with a
\* snapshot yields the single step from the first to the last version of the
\* path
C8_OneStepCollapsesSnapshotPath ==
    (PathPlanned /\ oneStep /\ plan.path[1].Type = Snapshot) =>
        /\ Len(plan.steps) = 1
        /\ plan.steps[1].from = plan.path[1]
        /\ plan.steps[1].to = plan.path[Len(plan.path)]
        /\ plan.steps[1].resumeToken = NoToken

C8_Witness ==
    /\ PathPlanned /\ oneStep
    /\ plan.path[1].Type = Snapshot
    /\ Len(plan.path) = 3
    /\ Len(plan.steps) = 1

\* C9: with a decodable token and oneStep unset, the first step carries the
\* raw token and goes from the token's from-version to the token's
\* to-version; the steps after it are the consecutive incrementals between
\* the sender's snapshots from the to-version onward in TXG order, without
\* bookmarks and without resume token
C9_ResumePlanIsResumeStepThenSnapshots ==
    (ResumePlanned /\ ~oneStep) =>
        LET first == plan.steps[1]
            snaps == SnapshotsFrom(first.to)
        IN  /\ first.resumeToken = receiverFS.ResumeToken
            /\ first.resumeToken # NoToken
            /\ first.to.Type = Snapshot
            /\ first.to.Guid = Tok.ToGUID
            /\ first.from = TokenFromVersion
            /\ snaps[1] = first.to
            /\ Len(plan.steps) = Len(snaps)
            /\ \A i \in 2..Len(plan.steps) :
                /\ plan.steps[i].from = snaps[i - 1]
                /\ plan.steps[i].to = snaps[i]
                /\ plan.steps[i].from.Type = Snapshot
                /\ plan.steps[i].to.Type = Snapshot
                /\ plan.steps[i].resumeToken = NoToken

C9_Witness ==
    /\ ResumePlanned /\ ~oneStep
    /\ Len(plan.steps) = 2
    /\ plan.steps[1].resumeToken # NoToken
    /\ \E i \in 1..Len(sfsvs) :
        /\ sfsvs[i].Type = Bookmark
        /\ sfsvs[i].CreateTXG > plan.steps[1].to.CreateTXG

\* C10: with a token and oneStep set, the resume step is the one planned
\* with oneStep unset, and when more than one sender snapshot remains from
\* the to-version onward the plan is the resume step followed by the one
\* step from the to-version to the sender's last snapshot
C10_OneStepCollapsesOnlyTheTail ==
    (ResumePlanned /\ oneStep) =>
        LET other == doPlanning(senderFS, receiverFS, sfsvs, rfsvs, policy,
                                FALSE, faults)
            snaps == SnapshotsFrom(plan.steps[1].to)
        IN  /\ other.err = NoErr
            /\ Target(plan.steps[1]) = Target(other.steps[1])
            /\ plan.steps[1].resumeToken = receiverFS.ResumeToken
            /\ Len(snaps) > 1 =>
                /\ Len(plan.steps) = 2
                /\ Target(plan.steps[2]) =
                    <<plan.steps[1].to, snaps[Len(snaps)], NoToken>>

C10_Witness ==
    /\ ResumePlanned /\ oneStep
    /\ Len(plan.steps) = 2
    /\ Len(SnapshotsFrom(plan.steps[1].to)) = 3

(***************************************************************************)
(* Properties of the version diff and of tryAutoresolveConflict (SpecPlan) *)
(***************************************************************************)
\* doPlanning reached its branch without resume token
NonResumePlanned ==
    /\ Planned
    /\ Listed
    /\ ~senderFS.IsPlaceholder
    /\ Len(sfsvs) >= 1
    /\ ~(receiverFS.present /\ receiverFS.ResumeToken # NoToken)

\* what doPlanning got from the receiver's ListFilesystemVersions
ListedReceiver == IF needReceiverVersions(receiverFS) THEN rfsvs ELSE <<>>

\* what IncrementalPath returned to doPlanning
Diff == IncrementalPath(ListedReceiver, sfsvs)

\* the version diff found no common ancestor and the receiver lists nothing
InitialReplication ==
    /\ NonResumePlanned
    /\ Diff.conflict.kind = "NoCommonAncestor"
    /\ Len(Diff.conflict.SortedReceiverVersions) = 0

\* the positions of the snapshots in the sender's sorted list
SenderSnapshots == {i \in 1..Len(SortedSender) : SortedSender[i].Type = Snapshot}

\* C11: on initial replication with policy most_recent the path is
\* [nil, v], v the sender's last snapshot in sorted order, and the plan is
\* the one step (nil -> v)
C11_MostRecentPathIsNilThenLatestSnapshot ==
    (InitialReplication /\ policy = InitialReplicationAutoResolutionMostRecent) =>
        /\ SenderSnapshots # {}
        /\ LET v == SortedSender[CHOOSE i \in SenderSnapshots :
                                    \A j \in SenderSnapshots : j <= i]
           IN  /\ plan.err = NoErr
               /\ plan.path = <<NilVersion, v>>
               /\ Len(plan.steps) = 1
               /\ Target(plan.steps[1]) = <<NilVersion, v, NoToken>>

\* C12: on initial replication with policy all the path is nil followed by
\* the sender's snapshots, each once, in TXG order, and holds no bookmark
C12_AllPathIsNilThenEverySnapshot ==
    (InitialReplication /\ policy = InitialReplicationAutoResolutionAll) =>
        /\ Len(plan.path) >= 1
        /\ plan.path[1] = NilVersion
        /\ \A i \in 2..Len(plan.path) :
            /\ plan.path[i].Type = Snapshot
            /\ \E k \in 1..Len(sfsvs) : sfsvs[k] = plan.path[i]
            /\ i > 2 => plan.path[i - 1].CreateTXG < plan.path[i].CreateTXG
        /\ \A k \in 1..Len(sfsvs) :
            sfsvs[k].Type = Snapshot =>
                Cardinality({i \in 2..Len(plan.path) : plan.path[i] = sfsvs[k]}) = 1

C12_Witness ==
    /\ InitialReplication /\ policy = InitialReplicationAutoResolutionAll
    /\ Len(plan.path) = 3
    /\ Len(sfsvs) = 3
    /\ sfsvs[1].CreateTXG > sfsvs[3].CreateTXG
    /\ \E k \in 1..3 : sfsvs[k].Type = Bookmark

Unresolvable ==
    /\ NonResumePlanned
    /\ \/ Diff.conflict.kind = "Diverged"
       \/ /\ Diff.conflict.kind = "NoCommonAncestor"
          /\ Len(Diff.conflict.SortedReceiverVersions) > 0

\* C14: a diverged receiver, or no common ancestor with a receiver that
\* lists versions, fails planning with that conflict under every policy,
\* without steps and without dry-run send
C14_UnresolvableConflictFailsPlanning ==
    Unresolvable =>
        /\ plan.err = Diff.conflict.kind
        /\ plan.conflict = Diff.conflict
        /\ plan.conflict.SortedReceiverVersions = ListedReceiver
        /\ plan.steps = <<>>
        /\ "sender.SendDry" \notin plan.calls

C14_Witness ==
    /\ Unresolvable
    /\ Diff.conflict.kind = "Diverged"
    /\ policy = InitialReplicationAutoResolutionAll
    /\ SenderSnapshots # {}

\* C15: when the version diff reports the sender's most recent snapshot as
\* present on the receiver, the plan has no steps and no error under every
\* policy, and no dry-run send is made
C15_AlreadyPresentPlansNothing ==
    (NonResumePlanned /\ Diff.conflict.kind = "MostRecentAlreadyPresent") =>
        /\ plan.steps = <<>>
        /\ plan.err = NoErr
        /\ ~plan.panicked
        /\ "sender.SendDry" \notin plan.calls

C15_Witness ==
    /\ NonResumePlanned
    /\ Diff.conflict.kind = "MostRecentAlreadyPresent"
    /\ policy = InitialReplicationAutoResolutionMostRecent
    /\ Len(rfsvs) = 2
    /\ Len(sfsvs) = 3

C17_ReceiveReqMatchesSendAndClearsUnusedToken ==
    \A i \in Started :
        \A k \in Events("Receive", "call", i) :
            /\ \A j \in Events("Send", "call", i) :
                /\ trace[k].req.Filesystem = trace[j].req.Filesystem
                /\ trace[k].req.To = trace[j].req.To
                /\ trace[k].req.ReplicationConfig = trace[j].req.ReplicationConfig
            /\ i = cur.step =>
                /\ trace[k].req.ClearResumeToken = ~cur.UsedResumeToken
                /\ cur.UsedResumeToken => ~trace[k].req.ClearResumeToken

C17_Witness ==
    /\ pc = "recv"
    /\ cur.UsedResumeToken
    /\ cur.sr.ResumeToken # NoToken
    /\ Events("Receive", "call", cur.step) # {}

\* the number of bytes read from the send stream of step i
BytesRead(i) == Cardinality(Events("Stream", "read", i))

\* C18: a step of the plan that received with success reports as bytes
\* replicated the number of bytes read from its stream, and the
\* filesystem's counter advances by that number when Receive returns and at
\* no other moment of the step
C18_BytesReplicatedIsBytesRead ==
    /\ [](\A i \in Started :
            (pc # "replanned" /\ Successes("Receive", i) # {}) =>
                /\ i <= Len(byteCounters)
                /\ BytesReplicated(i) = BytesRead(i))
    /\ [][/\ (pc = "recv" /\ pc' = "completing") =>
                promBytesReplicated' = promBytesReplicated + BytesRead(cur.step)
          /\ ~(pc = "recv" /\ pc' # "recv") =>
                promBytesReplicated' = promBytesReplicated]_vars

C18_Witness ==
    /\ Len(byteCounters) = 2
    /\ Successes("Receive", 2) # {}
    /\ BytesRead(1) >= 1
    /\ BytesRead(2) >= 1
    /\ promBytesReplicated = BytesRead(1) + BytesRead(2)

\* C19: what ReportInfo returns as BytesReplicated of a step never
\* decreases from one call to the next, and is 0 for a step that has not
\* started
C19_ReportedBytesNeverDecrease ==
    /\ [](\A i \in DOMAIN reported :
            (reported[i].seen /\ i > cur.step) =>
                reported[i].BytesReplicated = 0)
    /\ [][\A i \in DOMAIN reported \cap DOMAIN reported' :
            reported[i].seen =>
                /\ reported'[i].seen
                /\ reported'[i].BytesReplicated >= reported[i].BytesReplicated]_vars

C19_Witness ==
    /\ pc = "recv"
    /\ cur.step = 2
    /\ Len(reported) = 2
    /\ reported[1].seen /\ reported[1].BytesReplicated = 1
    /\ reported[2].seen /\ reported[2].BytesReplicated = 1
    /\ cur.count = 1

\* C20: when a Step has returned and its Send had returned a stream, the
\* stream is closed
C20_StreamClosedWhenStepReturns ==
    (cur.step >= 1 /\ Returned(cur.step) /\ cur.streamOpened) =>
        cur.streamClosed

\* the positions of the returns of an endpoint call of step i with an error
Failures(i) ==
    {k \in 1..Len(trace) :
        /\ trace[k].ev = "return"
        /\ trace[k].step = i
        /\ trace[k].err # NoErr}

\* C21: when Send, Receive or SendCompleted returned an error, the Step has
\* returned and what it returned is that error
C21_StepReturnsEndpointError ==
    \A i \in Started : \A k \in Failures(i) :
        /\ i = cur.step
        /\ Returned(i)
        /\ pc = "failed"
        /\ cur.err = trace[k].err
        /\ cur.err = EndpointError(trace[k].op)

C21_Witness ==
    /\ pc = "failed"
    /\ cur.step = 2
    /\ \E k \in Failures(2) : trace[k].op = "SendCompleted"

\* the positions of the returns of Send of step i without error and without
\* result or without stream
NilReturns(i) ==
    {k \in Events("Send", "return", i) :
        trace[k].err = NoErr /\ (trace[k].sresNil \/ trace[k].streamNil)}

\* C30: when Send returned no error and a nil result or a nil stream, the
\* Step has failed with an error without calling Receive or SendCompleted,
\* and the filesystem's counter is as it was when Send was called
C30_NilSendResultFailsStep ==
    /\ [](\A i \in Started :
            NilReturns(i) # {} =>
                /\ i = cur.step
                /\ pc = "failed"
                /\ cur.err # NoErr
                /\ Events("Receive", "call", i) = {}
                /\ Events("SendCompleted", "call", i) = {}
                /\ ~cur.byteCounterSet)
    /\ [][(pc = "send" /\ NilReturns(cur.step)' # {}) =>
            promBytesReplicated' = promBytesReplicated]_vars

C30_Witness ==
    /\ cur.step = 2
    /\ \E k \in NilReturns(2) : ~trace[k].sresNil /\ trace[k].streamNil
    /\ promBytesReplicated = 1

\* what planning returns for the same input when no endpoint call fails
PlanWithoutFaults ==
    doPlanning(senderFS, receiverFS, sfsvs, rfsvs, policy, oneStep, NoFaults)

\* C22: when the dry-run send request fails, planning returns without error
\* the steps it returns when the request succeeds, in the same order, each
\* with expected size 0
C22_DryRunFailureKeepsSteps ==
    (Planned /\ faults.dry) =>
        /\ plan.err = PlanWithoutFaults.err
        /\ "sender.SendDry" \in plan.calls => plan.err = NoErr
        /\ plan.calls = PlanWithoutFaults.calls
        /\ Len(plan.steps) = Len(PlanWithoutFaults.steps)
        /\ \A i \in 1..Len(plan.steps) :
              /\ plan.steps[i] =
                    [PlanWithoutFaults.steps[i] EXCEPT !.expectedSize = 0]
              /\ plan.steps[i].expectedSize = 0

C22_Witness ==
    /\ Planned
    /\ faults.dry
    /\ "sender.SendDry" \in plan.calls
    /\ Len(plan.steps) = 2
    /\ plan.steps[1].from # NilVersion
    /\ PlanWithoutFaults.steps[1].expectedSize > 0
    /\ PlanWithoutFaults.steps[2].expectedSize > 0

\* C23: for a placeholder on the sender planning calls neither ListVersions
\* nor the dry run; it returns no steps, without error when the receiver's
\* filesystem is absent or a placeholder, with an error when the receiver's
\* filesystem exists and is no placeholder
C23_SenderPlaceholderPlansNothing ==
    (Planned /\ senderFS.IsPlaceholder) =>
        /\ plan.calls = {}
        /\ plan.steps = <<>>
        /\ ~plan.panicked
        /\ (~receiverFS.present \/ receiverFS.IsPlaceholder) => plan.err = NoErr
        /\ (receiverFS.present /\ ~receiverFS.IsPlaceholder) =>
              plan.err =
                "sender filesystem is placeholder, but receiver filesystem is not"

C23_Witness ==
    /\ Planned
    /\ senderFS.IsPlaceholder
    /\ receiverFS.present
    /\ ~receiverFS.IsPlaceholder
    /\ Len(sfsvs) = 1
    /\ plan.err # NoErr

(***************************************************************************)
(* Properties of the Planner (SpecPlanner)                                 *)
(***************************************************************************)
\* Planner.Plan returned filesystems
PlanSucceeded ==
    planner.op = "Plan" /\ planner.returned /\ planner.err = NoErr

\* the positions in the receiver's list of the filesystems with the path
ListedByReceiver(path) ==
    {j \in 1..Len(endpoints.rfss) : endpoints.rfss[j].Path = path}

\* C24: what Plan returns has one Filesystem per filesystem the sender
\* listed, in the sender's order, with the receiver's filesystem of the same
\* path or nil when the receiver listed none; a path only the receiver
\* listed is the path of no Filesystem
C24_OneFilesystemPerSenderFilesystem ==
    PlanSucceeded =>
        /\ Len(planner.q) = Len(endpoints.sfss)
        /\ \A i \in 1..Len(planner.q) :
              /\ planner.q[i].Path = endpoints.sfss[i].Path
              /\ planner.q[i].senderFS = endpoints.sfss[i]
              /\ ListedByReceiver(planner.q[i].Path) = {} =>
                    planner.q[i].receiverFS = NilFilesystem
              /\ \A j \in ListedByReceiver(planner.q[i].Path) :
                    planner.q[i].receiverFS = endpoints.rfss[j]
        /\ \A j \in 1..Len(endpoints.rfss) :
              (\A i \in 1..Len(endpoints.sfss) :
                    endpoints.sfss[i].Path # endpoints.rfss[j].Path) =>
                 \A i \in 1..Len(planner.q) :
                    planner.q[i].Path # endpoints.rfss[j].Path

C24_Witness ==
    /\ PlanSucceeded
    /\ Len(endpoints.sfss) = 2
    /\ Len(endpoints.rfss) = 2
    /\ endpoints.rfss[2].Path = endpoints.sfss[1].Path
    /\ endpoints.rfss[2].IsPlaceholder
    /\ ListedByReceiver(endpoints.sfss[2].Path) = {}
    /\ planner.q[1].receiverFS = endpoints.rfss[2]
    /\ planner.q[2].receiverFS = NilFilesystem

\* the positions in planner.events of the returns of side with an error
ListFailures(side) ==
    {k \in 1..Len(planner.events) :
        /\ planner.events[k].side = side
        /\ planner.events[k].ev = "return"
        /\ planner.events[k].err # NoErr}

\* the position of the first return with an error, 0 when there is none
FirstListFailure ==
    LET all == ListFailures("sender") \cup ListFailures("receiver")
    IN  IF all = {} THEN 0 ELSE CHOOSE k \in all : \A m \in all : k <= m

\* C25: when a ListFilesystems call failed, the context of the group is
\* cancelled, and Plan returns the error of the first failure and no
\* filesystems, also when the other call returned a list; without a
\* failure Plan returns no error
C25_ListFailureFailsPlan ==
    planner.op = "Plan" =>
        /\ FirstListFailure # 0 => planner.ctxDone
        /\ (planner.returned /\ FirstListFailure # 0) =>
              /\ planner.err = planner.events[FirstListFailure].err
              /\ planner.err # NoErr
              /\ planner.q = <<>>
        /\ (planner.returned /\ FirstListFailure = 0) => planner.err = NoErr

\* both calls were in flight, the receiver's failed first and the sender's
\* returned its list afterwards
C25_Witness ==
    /\ planner.op = "Plan"
    /\ planner.returned
    /\ Len(planner.events) = 4
    /\ planner.events[1].ev = "call"
    /\ planner.events[2].ev = "call"
    /\ planner.events[3] =
          PlannerEv("receiver", "return", ListFilesystemsError("receiver"))
    /\ planner.events[4] = PlannerEv("sender", "return", NoErr)
    /\ Len(planner.sfss) = 2
    /\ planner.err = ListFilesystemsError("receiver")
    /\ planner.q = <<>>

\* C26: WaitForConnectivity returns after both pings returned; it returns
\* nil exactly when both returned nil; when one side failed, the error
\* names that side and wraps its error; when both failed, the error shows
\* the message once if the two messages are the same, and both otherwise
C26_WaitForConnectivityReportsBothPings ==
    (planner.op = "WaitForConnectivity" /\ planner.returned) =>
        LET se == endpoints.ping["sender"]
            re == endpoints.ping["receiver"]
        IN  /\ \A side \in Sides : planner.task[side] = "done"
            /\ planner.senderErr = se
            /\ planner.receiverErr = re
            /\ planner.connErr = NilError <=> (se = NilError /\ re = NilError)
            /\ (se # NilError /\ re = NilError) =>
                  /\ planner.connErr.msg =
                        <<"sender", " is not reachable: ">> \o se.msg
                  /\ planner.connErr.cause = {se}
            /\ (se = NilError /\ re # NilError) =>
                  /\ planner.connErr.msg =
                        <<"receiver", " is not reachable: ">> \o re.msg
                  /\ planner.connErr.cause = {re}
            /\ (se # NilError /\ re # NilError /\ se.msg = re.msg) =>
                  planner.connErr.msg =
                    <<"sender and receiver are not reachable: ">> \o se.msg
            /\ (se # NilError /\ re # NilError /\ se.msg # re.msg) =>
                  planner.connErr.msg =
                    <<"sender and receiver are not reachable:",
                      "\n  sender: ">> \o se.msg
                      \o <<"\n  receiver: ">> \o re.msg

\* both pings were in flight together and failed with different errors
\* of the same message
C26_Witness ==
    /\ planner.op = "WaitForConnectivity"
    /\ planner.returned
    /\ planner.events[1].ev = "call"
    /\ planner.events[2].ev = "call"
    /\ planner.senderErr # planner.receiverErr
    /\ planner.senderErr.msg = planner.receiverErr.msg
    /\ planner.senderErr # NilError
    /\ Len(planner.connErr.msg) = 2

(***************************************************************************)
(* Properties of TargetEquals (SpecTargetEquals)                           *)
(***************************************************************************)
Compared == result.op = "TargetEquals"

\* the parents of Steps a and b have the same path
SamePath(a, b) == args.steps[a].parent.Path = args.steps[b].parent.Path

\* the from-GUIDs of Steps a and b are equal and their to-GUIDs are equal
SameGuids(a, b) ==
    /\ GetGuid(args.steps[a].from) = GetGuid(args.steps[b].from)
    /\ GetGuid(args.steps[a].to) = GetGuid(args.steps[b].to)

\* C27: on Steps whose parents have the same path TargetEquals returns
\* true exactly when the from-GUIDs are equal and the to-GUIDs are equal,
\* nil counting as 0, and it is reflexive, symmetric and transitive
C27_TargetEqualsIsGuidEquality ==
    Compared =>
        /\ \A a, b \in 1..3 :
              SamePath(a, b) =>
                /\ ~result.eq[a][b].panicked
                /\ result.eq[a][b].equal <=> SameGuids(a, b)
                /\ result.eq[a][b].equal <=> result.eq[b][a].equal
        /\ \A a \in 1..3 : result.eq[a][a].equal
        /\ \A a, b, c \in 1..3 :
              (/\ SamePath(a, b) /\ SamePath(b, c)
               /\ result.eq[a][b].equal /\ result.eq[b][c].equal) =>
                 result.eq[a][c].equal

C27_Witness ==
    /\ Compared
    /\ \A a, b \in 1..3 : SamePath(a, b)
    /\ args.steps[1].from = NilVersion
    /\ args.steps[1].parent # args.steps[2].parent
    /\ result.eq[1][2].equal
    /\ args.steps[3].from # NilVersion
    /\ args.steps[3].to = args.steps[1].to
    /\ ~result.eq[1][3].equal

\* the parents of Steps a and b are different Filesystem objects
DifferentParents(a, b) == args.steps[a].parent.id # args.steps[b].parent.id

\* C28 as stated: TargetEquals panics for Steps whose parents are different
\* Filesystem objects with the same path
C28_Original_PanicsForDifferentParentsOfSamePath ==
    Compared =>
        \A a, b \in 1..3 :
            (DifferentParents(a, b) /\ SamePath(a, b)) =>
                result.eq[a][b].panicked

\* C28: TargetEquals panics exactly when the paths of the parents differ;
\* for different Filesystem objects with the same path it does not panic
\* and compares the GUIDs, and for a driver.Step of another type it
\* returns false
C28_PanicsExactlyWhenPathsDiffer ==
    Compared =>
        /\ \A a, b \in 1..3 : result.eq[a][b].panicked <=> ~SamePath(a, b)
        /\ \A a, b \in 1..3 :
              (DifferentParents(a, b) /\ SamePath(a, b)) =>
                /\ ~result.eq[a][b].panicked
                /\ result.eq[a][b].equal <=> SameGuids(a, b)
        /\ ~result.other.panicked
        /\ ~result.other.equal

C28_Witness ==
    /\ Compared
    /\ DifferentParents(1, 2)
    /\ SamePath(1, 2)
    /\ ~result.eq[1][2].panicked
    /\ result.eq[1][2].equal
    /\ ~SamePath(1, 3)
    /\ result.eq[1][3].panicked

(***************************************************************************)
(* Properties of the batched destroy (SpecDestroy)                         *)
(***************************************************************************)
Destroyed == result.op = "doDestroy"

\* the positions in the record of st of the empty batches tryBatch got
EmptyBatches(st) == {k \in 1..Len(st.tryBatch) : Len(st.tryBatch[k]) = 0}

\* the requests are not all on one filesystem
MixedFilesystems ==
    \E i, j \in 1..Len(args.reqs) :
        args.reqs[i].Filesystem # args.reqs[j].Filesystem

\* C29 as stated: tryBatch panics when it gets an empty batch
C29_Original_EmptyBatchPanics ==
    Destroyed =>
        /\ Len(args.reqs) = 0 => result.tryBatch.st.panicked
        /\ EmptyBatches(result.st) # {} => result.st.panicked

\* C29: tryBatch returns nil for an empty batch, without panic and without
\* a call to the destroyer; it panics exactly for a batch with requests on
\* different filesystems, which doDestroy never passes to it
C29_EmptyBatchReturnsNil ==
    Destroyed =>
        /\ Len(args.reqs) = 0 =>
              /\ ~result.tryBatch.st.panicked
              /\ result.tryBatch.err = NoDestroyError
              /\ result.tryBatch.st.calls = <<>>
        /\ result.tryBatch.st.panicked <=> MixedFilesystems
        /\ ~result.st.panicked
        /\ \A k \in 1..Len(result.st.calls) :
              Len(result.st.calls[k].Names) >= 1

\* both snapshots of a batch are undestroyable: the stripped batch is
\* empty, and the two are destroyed one by one afterwards
C29_Witness ==
    /\ Destroyed
    /\ Len(args.reqs) = 2
    /\ EmptyBatches(result.st) # {}
    /\ ~result.st.panicked
    /\ Len(result.st.calls) = 3
    /\ \A i \in 1..2 : result.st.ErrOut[i].kind = "DestroySnapshotsError"


(***************************************************************************)
(* Properties of listBothVersions and of the resume branch (SpecPlan)      *)
(***************************************************************************)
\* C31: for a sender filesystem that is no placeholder, planning calls
\* ListFilesystemVersions on the sender always and on the receiver exactly
\* when the receiver's filesystem is present and no placeholder; without
\* the receiver call the plan is the one for an empty receiver list; when
\* an issued call fails, planning fails with no steps and no SendDry call
C31_ListVersionsCallsAndFailure ==
    (Planned /\ ~senderFS.IsPlaceholder) =>
        LET need == receiverFS.present /\ ~receiverFS.IsPlaceholder
            failed == faults.slist \/ (faults.rlist /\ need)
        IN  /\ "sender.ListFilesystemVersions" \in plan.calls
            /\ ("receiver.ListFilesystemVersions" \in plan.calls) <=> need
            /\ ~need => plan = doPlanning(senderFS, receiverFS, sfsvs, <<>>,
                                          policy, oneStep, faults)
            /\ failed =>
                /\ plan.err # NoErr
                /\ ~plan.panicked
                /\ plan.steps = <<>>
                /\ "sender.SendDry" \notin plan.calls

\* the receiver's list call fails while the sender lists two snapshots
C31_Witness ==
    /\ Planned
    /\ ~senderFS.IsPlaceholder
    /\ receiverFS.present /\ ~receiverFS.IsPlaceholder
    /\ faults.rlist /\ ~faults.slist
    /\ Len(sfsvs) = 2
    /\ plan.err = "receiver: list versions failed"
    /\ "receiver.ListFilesystemVersions" \in plan.calls


\* the receiver's filesystem carries a non-empty resume token
HasResumeToken == receiverFS.present /\ receiverFS.ResumeToken # NoToken

\* C32: when the receiver's filesystem carries a non-empty resume token that
\* cannot be decoded or that decodes without toguid, planning fails with an
\* error and no steps, and computes neither a path nor a conflict
C32_MalformedTokenFailsPlanning ==
    (/\ Planned
     /\ ~senderFS.IsPlaceholder
     /\ HasResumeToken
     /\ Tok.err \/ ~Tok.HasToGUID) =>
        /\ plan.err # NoErr
        /\ ~plan.panicked
        /\ plan.steps = <<>>
        /\ plan.path = <<>>
        /\ plan.conflict = NoConflict
        /\ "sender.SendDry" \notin plan.calls
        /\ (Listed /\ Len(sfsvs) >= 1) =>
             plan.err = IF Tok.err THEN "cannot decode resume token"
                        ELSE "resume token toguid not found on sender"

\* a token with fromguid and without toguid, on a receiver that shares a
\* snapshot with a sender of two snapshots
C32_Witness ==
    /\ Planned
    /\ HasResumeToken
    /\ ~Tok.err /\ ~Tok.HasToGUID /\ Tok.HasFromGUID
    /\ Len(sfsvs) >= 2 /\ \A k \in 1..Len(sfsvs) : sfsvs[k].Type = Snapshot
    /\ Len(rfsvs) = 1 /\ \E k \in 1..Len(sfsvs) : sfsvs[k] = rfsvs[1]
    /\ plan.err = "resume token toguid not found on sender"

\* doPlanning reached its resume branch with a decoded token
ResumeBranch ==
    /\ Planned
    /\ Listed
    /\ ~senderFS.IsPlaceholder
    /\ Len(sfsvs) >= 1
    /\ HasResumeToken
    /\ ~Tok.err

\* the positions of the sender's versions of type t with guid g
SenderPositions(t, g) ==
    {i \in 1..Len(sfsvs) : sfsvs[i].Type = t /\ sfsvs[i].Guid = g}

\* C33: in the resume branch the to-version of the resume step is a
\* snapshot of the sender with the token's toguid; when the sender has no
\* such snapshot, planning fails with an error and no steps
C33_ResumeToVersionIsSenderSnapshot ==
    ResumeBranch =>
        /\ plan.resumed
        /\ plan.err = NoErr =>
            /\ Len(plan.steps) >= 1
            /\ Tok.HasToGUID
            /\ \E i \in SenderPositions(Snapshot, Tok.ToGUID) :
                    plan.steps[1].to = sfsvs[i]
        /\ (~Tok.HasToGUID \/ SenderPositions(Snapshot, Tok.ToGUID) = {}) =>
            /\ plan.err # NoErr
            /\ ~plan.panicked
            /\ plan.steps = <<>>
            /\ "sender.SendDry" \notin plan.calls

\* the sender has the token's toguid as a bookmark only, and later snapshots
C33_Witness ==
    /\ ResumeBranch
    /\ Tok.HasToGUID
    /\ SenderPositions(Bookmark, Tok.ToGUID) # {}
    /\ SenderPositions(Snapshot, Tok.ToGUID) = {}
    /\ \E k \in 1..Len(sfsvs) :
            sfsvs[k].Type = Snapshot /\ sfsvs[k].Guid > Tok.ToGUID
    /\ plan.err = "resume token toguid not found on sender"

\* C34: when the token has a fromguid and the sender lists a bookmark and a
\* snapshot with that guid, the resume step's from-version is the snapshot,
\* in whatever order the sender lists the two
C34_ResumeFromVersionPrefersSnapshot ==
    (/\ ResumeBranch
     /\ plan.err = NoErr
     /\ Tok.HasFromGUID
     /\ SenderPositions(Bookmark, Tok.FromGUID) # {}
     /\ SenderPositions(Snapshot, Tok.FromGUID) # {}) =>
        /\ Len(plan.steps) >= 1
        /\ plan.steps[1].from # NilVersion
        /\ plan.steps[1].from.Type = Snapshot
        /\ plan.steps[1].from.Guid = Tok.FromGUID
        /\ plan.steps[1].resumeToken = receiverFS.ResumeToken

\* the sender lists the snapshot of the fromguid before its bookmark
C34_Witness ==
    /\ ResumeBranch
    /\ plan.err = NoErr
    /\ Tok.HasFromGUID
    /\ \E i \in SenderPositions(Snapshot, Tok.FromGUID) :
        \E j \in SenderPositions(Bookmark, Tok.FromGUID) : i < j
    /\ plan.steps[1].from.Type = Snapshot

\* C35: a resume token whose fromguid equals its toguid is rejected for
\* every sender version list: planning fails with an error and no steps
C35_EqualFromAndToGuidRejected ==
    (/\ Planned
     /\ ~senderFS.IsPlaceholder
     /\ HasResumeToken
     /\ ~Tok.err
     /\ Tok.HasFromGUID
     /\ Tok.FromGUID = Tok.ToGUID) =>
        /\ plan.err # NoErr
        /\ ~plan.panicked
        /\ plan.steps = <<>>
        /\ "sender.SendDry" \notin plan.calls

\* the sender has the snapshot of both guids, its bookmark and a later snapshot
C35_Witness ==
    /\ ResumeBranch
    /\ Tok.HasFromGUID /\ Tok.FromGUID = Tok.ToGUID
    /\ SenderPositions(Snapshot, Tok.ToGUID) # {}
    /\ SenderPositions(Bookmark, Tok.ToGUID) # {}
    /\ \E k \in 1..Len(sfsvs) :
            sfsvs[k].Type = Snapshot /\ sfsvs[k].Guid > Tok.ToGUID
    /\ plan.err = "resume token fromguid and toguid match same version"


\* C36: with a decodable resume token, the steps and the error of the plan
\* are those of the planning with the same sender list, token and oneStep
\* for a receiver that lists nothing and under one fixed policy; so two
\* plannings that differ only in the receiver's version list, or in the
\* policy, yield the same steps, whether the receiver's list holds the
\* token's versions, other versions of the sender, or versions the sender
\* does not have
C36_ResumePlanIgnoresReceiverVersions ==
    (/\ Planned
     /\ ~senderFS.IsPlaceholder
     /\ HasResumeToken
     /\ ~Tok.err) =>
        LET p == doPlanning(senderFS, receiverFS, sfsvs, <<>>,
                            InitialReplicationAutoResolutionFail, oneStep,
                            faults)
        IN  /\ p.steps = plan.steps
            /\ p.err = plan.err

\* a plan of two steps for a receiver whose only version the sender lacks
C36_Witness ==
    /\ ResumeBranch
    /\ ~receiverFS.IsPlaceholder
    /\ plan.err = NoErr
    /\ Len(plan.steps) >= 2
    /\ Len(rfsvs) = 1
    /\ \A k \in 1..Len(sfsvs) : sfsvs[k].Guid # rfsvs[1].Guid


(***************************************************************************)
(* The panic for a path of length one (SpecPlan)                           *)
(***************************************************************************)
\* C37: for every sender version list, receiver version list, policy and
\* oneStep value, planning never reaches the panic for a path of length
\* one: every path handed to the step derivation is empty or has two or
\* more entries
C37_NeverPanicsOnPathOfLengthOne ==
    Planned => /\ ~plan.panicked
               /\ Len(plan.path) # 1



(***************************************************************************)
(* The bytes-replicated counter of the filesystem (SpecRepl)               *)
(***************************************************************************)
\* the bytes read from the streams of the steps 1..n whose Receive returned
RECURSIVE BytesReadUntilReceiveReturned(_)
BytesReadUntilReceiveReturned(n) ==
    IF n = 0 THEN 0
    ELSE BytesReadUntilReceiveReturned(n - 1) +
            (IF Events("Receive", "return", n) # {} THEN BytesRead(n) ELSE 0)

\* C38: on every exit of sendRecv after Send returned a result and a stream,
\* the exit with a failed Receive included, the filesystem's counter grows
\* once, by the number of bytes read from the stream so far; it has grown
\* when SendCompleted is called; it does not change when Send fails nor
\* at any other step
C38_CounterAddedOnEveryExitAfterSend ==
    /\ [](pc # "replanned" =>
            /\ promBytesReplicated = BytesReadUntilReceiveReturned(cur.step)
            /\ \A i \in Started :
                    Events("SendCompleted", "call", i) # {} =>
                        /\ Events("Receive", "return", i) # {}
                        /\ i <= Len(byteCounters))
    /\ [][/\ (pc = "recv" /\ pc' \in {"completing", "failed"}) =>
                promBytesReplicated' = promBytesReplicated + BytesRead(cur.step)
          /\ (pc = "send" /\ pc' = "failed") =>
                promBytesReplicated' = promBytesReplicated
          /\ pc \in {"send", "completing", "planned", "failed"} =>
                promBytesReplicated' = promBytesReplicated]_vars

\* Receive failed after a byte of the stream was read
C38_Witness ==
    /\ pc = "failed"
    /\ cur.err = EndpointError("Receive")
    /\ BytesRead(cur.step) >= 1
    /\ promBytesReplicated = BytesReadUntilReceiveReturned(cur.step)
    /\ promBytesReplicated >= 1


(***************************************************************************)
(* Termination of doDestroy (SpecDestroySteps)                             *)
(***************************************************************************)
\* the calls to the destroyer that cover request i
CoveringCalls(i) ==
    {k \in 1..Len(result.st.calls) :
        /\ result.st.calls[k].Filesystem = args.reqs[i].Filesystem
        /\ \E n \in 1..Len(result.st.calls[k].Names) :
                result.st.calls[k].Names[n] = args.reqs[i].Name}

\* the invocations of doDestroyBatchedRec that a list of batches can still
\* take: a batch of n requests is halved at most n - 1 times
RECURSIVE InvocationsLeft(_)
InvocationsLeft(work) ==
    IF Len(work) = 0 THEN 0
    ELSE (IF Len(Head(work)) = 0 THEN 1 ELSE 2 * Len(Head(work)) - 1)
            + InvocationsLeft(Tail(work))

\* C39: doDestroy, once called, returns for every request list and
\* destroyer; every invocation of doDestroyBatchedRec that is still to run
\* has a batch that is not empty, the halves after E2BIG are shorter than
\* the batch, and every invocation leaves fewer invocations to run;
\* when doDestroy has returned, a request without Filesystem or Name has
\* its validation error and was not passed to the destroyer, and every
\* other request has the outcome of a destroy call that covers it
C39_DestroyTerminatesWithEveryErrOutAssigned ==
    /\ (result.op = "doDestroyBatched") ~> (result.op = "returned")
    /\ [][result.op = "doDestroyBatched" /\ result'.op = "doDestroyBatched" =>
            /\ \A k \in 1..Len(result'.work) : Len(result'.work[k]) >= 1
            /\ InvocationsLeft(result'.work) < InvocationsLeft(result.work)
            /\ Len(result'.work) > Len(result.work) =>
                /\ Len(result'.work[1]) < Len(Head(result.work))
                /\ Len(result'.work[2]) < Len(Head(result.work))]_vars
    /\ [](result.op = "returned" =>
            /\ ~result.st.panicked
            /\ result.st = doDestroy(args.reqs, args.d, args.maxBatchSize)
            /\ \A k \in 1..Len(result.st.calls) :
                /\ result.st.calls[k].Filesystem # ""
                /\ \A n \in 1..Len(result.st.calls[k].Names) :
                        result.st.calls[k].Names[n] # ""
            /\ \A i \in 1..Len(args.reqs) :
                /\ result.st.ErrOut[i] # ErrOutUnset
                /\ args.reqs[i].Filesystem = "" =>
                    result.st.ErrOut[i] =
                        DestroyError("Filesystem must not be an empty string")
                /\ (args.reqs[i].Filesystem # "" /\ args.reqs[i].Name = "") =>
                    result.st.ErrOut[i] =
                        DestroyError("Name must not be an empty string")
                /\ (args.reqs[i].Filesystem # "" /\ args.reqs[i].Name # "") =>
                    \E k \in CoveringCalls(i) :
                        result.st.ErrOut[i] =
                            Destroy(args.d, result.st.calls[k].Names))

\* a batch of three was halved twice after E2BIG, with an invalid request
\* in the list
C39_Witness ==
    /\ result.op = "returned"
    /\ Len(args.reqs) = MaxReqs
    /\ args.d.argMax = 1
    /\ Len(result.st.tryBatch) >= 2
    /\ Len(result.st.calls) >= 4


(***************************************************************************)
(* Properties of the snapshot plan (SpecSnapper)                           *)
(***************************************************************************)
\* the state t is the state s or comes after it
SnapForward(s, t) ==
    \/ s = t
    \/ s = SnapPending
    \/ s = SnapStarted /\ t \in {SnapDone, SnapError}

\* one step of a filesystem's state
SnapStep(s, t) ==
    \/ s = SnapPending /\ t \in {SnapStarted, SnapError}
    \/ s = SnapStarted /\ t \in {SnapDone, SnapError}

AtMostOneStarted(states) ==
    Cardinality({fs \in DOMAIN states : states[fs] = SnapStarted}) <= 1

\* C40: during execute the state of every filesystem moves one step
\* forward at a time, Pending -> Started -> Done or Error, and
\* Pending -> Error exactly when its hook plan could not be made; what
\* report returns never goes back and never shows two filesystems in
\* Started; when execute has returned every filesystem is Done or Error
\* and the result is true exactly when no filesystem is in Error
C40_SnapStatesMoveForward ==
    /\ [][\A fs \in args.fss :
            /\ result'.snaps[fs] # result.snaps[fs] =>
                /\ result.op = "execute"
                /\ SnapStep(result.snaps[fs], result'.snaps[fs])
                /\ (result.snaps[fs] = SnapPending
                        /\ result'.snaps[fs] = SnapError) <=>
                    (fs \in result'.planFailed \ result.planFailed)
            /\ SnapForward(result.report[fs], result'.report[fs])]_vars
    /\ [](/\ AtMostOneStarted(result.snaps)
          /\ AtMostOneStarted(result.report))
    /\ [](result.op = "returned" =>
            /\ \A fs \in args.fss : result.snaps[fs] \in {SnapDone, SnapError}
            /\ result.ok <=> \A fs \in args.fss : result.snaps[fs] # SnapError)

\* execute returned false after a filesystem without hook plan, one with
\* an error of its hooks and one that is done; report saw the last of
\* them in Started and not since
C40_Witness ==
    /\ result.op = "returned"
    /\ ~result.ok
    /\ \E fs \in args.fss :
            result.snaps[fs] = SnapError /\ fs \in result.planFailed
    /\ \E fs \in args.fss :
            result.snaps[fs] = SnapError /\ fs \notin result.planFailed
    /\ \E fs \in args.fss :
            result.snaps[fs] = SnapDone /\ result.report[fs] = SnapStarted

====
